---- MODULE Spec2Model ----
(***************************************************************************)
(* Model of the apidance Twitter client (src/apidance/client.py): the      *)
(* retry engine TwitterClient._make_request with its response classifier   *)
(* _should_retry and backoff schedule _calculate_retry_delay, and the      *)
(* public operations that drive it.                                        *)
(*                                                                         *)
(* One step of a call is one of: the header set-up (with the auth-token    *)
(* validation), one HTTP attempt with its classification, the end of one   *)
(* backoff sleep, and the processing an operation does on the body that    *)
(* _make_request returned to it.                                           *)
(***************************************************************************)
EXTENDS Integers, Sequences, FiniteSets, TLC

(***************************************************************************)
(* Bounds of the model.                                                    *)
(***************************************************************************)
\* max_retries is drawn from 0..MaxRetriesBound
MaxRetriesBound == 3
\* initial_retry_delay is drawn from 1..MaxInitialDelay
MaxInitialDelay == 2
\* backoff_factor is drawn from DefaultBackoffFactor..MaxBackoffFactor
MaxBackoffFactor == 3
\* a small max_retry_delay, so that the cap of the schedule is reached
SmallMaxRetryDelay == 3
\* max_retries of the client the public operations run on: 1..OpsMaxRetries
OpsMaxRetries == 2
\* tweet ids on the pages upstream returns: 1..MaxTweetId
MaxTweetId == 2
\* number of timeline entries on one page: 0..MaxPageLen
MaxPageLen == 3
\* cursors upstream hands out: 1..MaxCursor
MaxCursor == 1
\* page requests one paginated operation may issue in the model
MaxPageRequests == 3
\* levels of retweeted_status_result inside a fragment: 0..MaxRetweetDepth
MaxRetweetDepth == 2

(***************************************************************************)
(* Program constants.                                                      *)
(***************************************************************************)
DefaultInitialRetryDelay == 1
DefaultMaxRetryDelay == 32
DefaultBackoffFactor == 2
\* {40} of the pattern ^[0-9a-f]{40}$
AuthTokenLen == 40
\* upstream error codes the classifier names
RateLimitCode == 88
InvalidInputCode == 366
AlreadyFavoritedCode == 139
SuspendedCode == 64
\* the code favorite_tweet reads as "not found"
NotFoundCode == 144
\* the largest page size get_followers asks for
BatchLimit == 20
None == "None"

(***************************************************************************)
(* exceptions.py: the error kinds and their base classes.  The kinds that  *)
(* are not the library's are Python's and httpx's.                         *)
(***************************************************************************)
ApiDanceErrors ==
    {"ApiDanceError", "TimeoutError", "ConfigurationError", "ApiKeyError",
     "AuthTokenError", "ApidancePlatformError", "RateLimitError",
     "InsufficientCreditsError", "TwitterPlatformError",
     "PremiumRequiredError", "InvalidInputError", "AuthenticationError"}

ForeignErrors ==
    {"JSONDecodeError", "TypeError", "AttributeError", "KeyError",
     "ConnectError", "Exception"}

BaseClass(e) ==
    CASE e \in {"TimeoutError", "ConfigurationError", "ApidancePlatformError",
                "TwitterPlatformError"} -> "ApiDanceError"
      [] e \in {"ApiKeyError", "AuthTokenError"} -> "ConfigurationError"
      [] e \in {"RateLimitError", "InsufficientCreditsError"}
             -> "ApidancePlatformError"
      [] e \in {"PremiumRequiredError", "InvalidInputError",
                "AuthenticationError"} -> "TwitterPlatformError"
      [] OTHER -> "Exception"

\* isinstance(e, cls) for the classes above (the hierarchy is three deep)
IsInstance(e, cls) ==
    \/ e = cls
    \/ BaseClass(e) = cls
    \/ BaseClass(BaseClass(e)) = cls
    \/ cls = "Exception"

(***************************************************************************)
(* The X_AUTH_TOKEN values of the environment: a token is a sequence of    *)
(* characters, None when the variable is not set.                          *)
(***************************************************************************)
HexChars == {"0", "1", "2", "3", "4", "5", "6", "7", "8", "9",
             "a", "b", "c", "d", "e", "f"}

Rep(c, n) == [i \in 1..n |-> c]

Tokens ==
    { Rep("a", AuthTokenLen),                     \* well formed
      Rep("a", AuthTokenLen - 1) \o <<"7">>,      \* well formed
      Rep("a", AuthTokenLen - 1),                 \* too short
      Rep("a", AuthTokenLen + 1),                 \* too long
      Rep("A", AuthTokenLen),                     \* upper case
      Rep("a", AuthTokenLen) \o <<"\n">>,         \* a trailing newline
      <<>> }                                      \* set, but empty

\* re.match(r"^[0-9a-f]{40}$", token): forty hex characters from the start,
\* then the end of the string; "$" also matches just before a newline that
\* ends the string.
TokenREMatch(token) ==
    /\ Len(token) >= AuthTokenLen
    /\ \A i \in 1..AuthTokenLen : token[i] \in HexChars
    /\ \/ Len(token) = AuthTokenLen
       \/ Len(token) = AuthTokenLen + 1 /\ token[AuthTokenLen + 1] = "\n"

auth_required_endpoints ==
    {"/graphql/FollowersYouKnow", "/graphql/CreateTweet",
     "/graphql/CreateNoteTweet", "/graphql/FavoriteTweet"}

(***************************************************************************)
(* What self.client.request gives on one attempt: it raises (kinds         *)
(* "ConnectError", "Exception") or it delivers a response whose body is    *)
(* text that is not JSON ("text"), the JSON null ("null"), an upstream     *)
(* error envelope {"errors": [{"code": c}]} ("errors"), a proxy envelope   *)
(* {"code": c, "msg": m} ("code"), or an object with a data field          *)
(* ("data").                                                               *)
(***************************************************************************)
Resp(kind, text, code, msg, data) ==
    [kind |-> kind, text |-> text, code |-> code, msg |-> msg, data |-> data]

\* the body {"data": {}}: no timeline entries, no cursor, nothing favorited.
\* shape tells how far the path to the entries of a timeline goes: the data
\* object lacks it ("bare"), the instructions list is empty
\* ("no_instructions"), the instruction has no entries key ("no_entries"),
\* the instruction has an entries list ("timeline"), or the data field is
\* itself the JSON null ("null"), or the data object is that of a single
\* tweet ("tweetResult")
EmptyData ==
    [favorite_tweet |-> "", shape |-> "bare", entries |-> <<>>, cursor |-> 0]

\* {"data": {"favorite_tweet": "Done"}}
FavoriteDone == [EmptyData EXCEPT !.favorite_tweet = "Done"]

\* {"data": {... {"instructions": []}}}
NoInstructions == [EmptyData EXCEPT !.shape = "no_instructions"]

\* {"data": {... {"instructions": [{"type": "TimelineClearCache"}]}}}
NoEntries == [EmptyData EXCEPT !.shape = "no_entries"]

\* {"data": null}
NullData == [EmptyData EXCEPT !.shape = "null"]

\* {"data": {"tweetResult": ...}}: the data object is the fragment of the
\* tweet that was asked for
TweetResultData == [EmptyData EXCEPT !.shape = "tweetResult"]

\* a page of a timeline: the ids of its tweet (or user) entries in order, and
\* the value of its cursor-bottom entry (0: the page has none)
Pages ==
    { [favorite_tweet |-> "", shape |-> "timeline", entries |-> e,
       cursor |-> c] :
        e \in UNION { [1..n -> 1..MaxTweetId] : n \in 0..MaxPageLen },
        c \in 0..MaxCursor }

\* the bodies a timeline endpoint answers with
TimelineBodies ==
    Pages \cup {EmptyData, NoInstructions, NoEntries, NullData}

TimelineEndpoints ==
    {"/graphql/SearchTimeline", "/graphql/UserTweets",
     "/graphql/ListLatestTweetsTimeline", "/graphql/Following",
     "/graphql/Followers", "/graphql/FollowersYouKnow"}

ConnectFailure == Resp("ConnectError", "", 0, "", EmptyData)
OtherFailure == Resp("Exception", "", 0, "", EmptyData)
LocalRateLimited == Resp("text", "local_rate_limited", 0, "", EmptyData)
MalformedJson == Resp("text", "<html>", 0, "", EmptyData)
JsonNull == Resp("null", "null", 0, "", EmptyData)
ErrorEnvelope(code) == Resp("errors", "", code, "", EmptyData)
ProxyEnvelope(msg) == Resp("code", "", 1, msg, EmptyData)
DataBody(data) == Resp("data", "", 0, "", data)

UpstreamCodes ==
    {RateLimitCode, 32, InvalidInputCode,
     AlreadyFavoritedCode, SuspendedCode, NotFoundCode}

ProxyMsgs == {"Insufficient API counts", "internal error"}

\* msg.lower()
Lower(msg) ==
    IF msg = "Insufficient API counts" THEN "insufficient api counts" ELSE msg

\* "insufficient api counts" in msg
HasInsufficientApiCounts(msg) == msg = "insufficient api counts"

DataOf(endpoint) ==
    CASE endpoint \in TimelineEndpoints -> TimelineBodies
      [] endpoint = "/graphql/FavoriteTweet" -> {FavoriteDone, EmptyData}
      [] endpoint = "/graphql/TweetResultByRestId" ->
            {TweetResultData, EmptyData, NullData}
      [] OTHER -> {EmptyData}

\* everything one attempt against the endpoint can meet
Upstream(endpoint) ==
    {ConnectFailure, OtherFailure, LocalRateLimited, MalformedJson, JsonNull}
    \cup { ErrorEnvelope(c) : c \in UpstreamCodes }
    \cup { ProxyEnvelope(m) : m \in ProxyMsgs }
    \cup { DataBody(d) : d \in DataOf(endpoint) }

\* response.json() raises json.JSONDecodeError on these bodies
JsonFails(response) == response.kind = "text"

\* response.get("data", {}) is None: the body is {"data": null}
DataIsNull(response) == response.kind = "data" /\ response.data.shape = "null"

(***************************************************************************)
(* TwitterClient._calculate_retry_delay                                    *)
(***************************************************************************)
RECURSIVE Pow(_, _)
Pow(b, e) == IF e <= 0 THEN 1 ELSE b * Pow(b, e - 1)

\* a minimum that always takes its first argument: a delay without a cap
Min_first(a, b) == a

Min(a, b) == IF a <= b THEN a ELSE b

\* a schedule whose exponent is the number of the attempt that failed
_calculate_retry_delay_late(self, attempt) ==
    Min(self.initial_retry_delay * Pow(self.backoff_factor, attempt),
        self.max_retry_delay)

_calculate_retry_delay(self, attempt) ==
    Min(self.initial_retry_delay * Pow(self.backoff_factor, attempt - 1),
        self.max_retry_delay)

(***************************************************************************)
(* TwitterClient._should_retry: what the classifier does with a response   *)
(* on attempt number "attempt": it returns True or False, or it raises.    *)
(***************************************************************************)
Returns(b) == [raises |-> None, value |-> b]
Raises(e) == [raises |-> e, value |-> FALSE]

\* a classifier that looks at the response of the final attempt too
BudgetSpent_late(self, attempt) == attempt > self.max_retries

\* "if attempt >= self.max_retries: return False"
BudgetSpent(self, attempt) == attempt >= self.max_retries

\* a classifier that gives up on a body that is not JSON
OnJSONDecodeError_giveup == Returns(FALSE)

\* "except json.JSONDecodeError: return True"
OnJSONDecodeError == Returns(TRUE)

\* a classifier without the branch for code 139
OnTwitterError_no139(self, error_code, attempt) ==
    IF error_code = RateLimitCode THEN
        IF attempt = self.max_retries
        THEN Raises("RateLimitError") ELSE Returns(TRUE)
    ELSE IF error_code = InvalidInputCode THEN Raises("InvalidInputError")
    ELSE IF error_code = SuspendedCode THEN Returns(TRUE)
    ELSE Raises("TwitterPlatformError")

\* the branch for a body with an "errors" array, on its first error's code
OnTwitterError(self, error_code, attempt) ==
    IF error_code = RateLimitCode THEN
        IF attempt = self.max_retries
        THEN Raises("RateLimitError") ELSE Returns(TRUE)
    ELSE IF error_code = InvalidInputCode THEN Raises("InvalidInputError")
    ELSE IF error_code = AlreadyFavoritedCode THEN Returns(FALSE)
    ELSE IF error_code = SuspendedCode THEN Returns(TRUE)
    ELSE Raises("TwitterPlatformError")

\* the branch for a body whose "code" is positive, on its "msg"
OnApidanceError(msg) ==
    IF HasInsufficientApiCounts(Lower(msg))
    THEN Raises("InsufficientCreditsError")
    ELSE Raises("ApidancePlatformError")

\* the last statements, reached by a body with neither envelope:
\* "data" in response_data raises TypeError when response_data is None
OnPlainBody(response) ==
    IF response.text = "local_rate_limited" THEN Returns(TRUE)
    ELSE IF response.kind = "null" THEN Raises("TypeError")
    ELSE Returns(FALSE)

_should_retry(self, response, attempt) ==
    IF BudgetSpent(self, attempt) THEN Returns(FALSE)
    ELSE IF JsonFails(response) THEN OnJSONDecodeError
    ELSE IF response.kind = "errors"
        THEN OnTwitterError(self, response.code, attempt)
    ELSE IF response.kind = "code" /\ response.code > 0
        THEN OnApidanceError(response.msg)
    ELSE OnPlainBody(response)

(***************************************************************************)
(* One iteration of the retry loop of _make_request, from the HTTP call    *)
(* to the point where the iteration sleeps, returns or raises.             *)
(***************************************************************************)
fatal_exceptions ==
    {"AuthTokenError", "InsufficientCreditsError", "ApidancePlatformError"}

IsFatal(e) == \E cls \in fatal_exceptions : IsInstance(e, cls)

\* How an iteration ends.  "last" is what it assigns to last_error (None:
\* no assignment).
\* the iteration goes on to time.sleep
GoSleep(err) == [next |-> "sleep", exc |-> None, last |-> err]
\* return response.json()
GoReturn == [next |-> "return", exc |-> None, last |-> None]
\* a raise statement of a handler of the outer try
GoRaise(e) == [next |-> "raise", exc |-> e, last |-> None]
\* a handler that sleeps the backoff delay before it leaves the loop
GoBreak_sleeping(e) == [next |-> "sleep", exc |-> None, last |-> e]

\* last_error = e; break; and after the loop: if last_error: raise last_error
GoBreak(e) == [next |-> "raise", exc |-> e, last |-> e]

\* an outer try without the handler for httpx.ConnectError
OuterHandler_generic(self, attempt, e) ==
    IF attempt = self.max_retries THEN GoRaise("ApidancePlatformError")
    ELSE GoSleep(e)

\* the handlers "except httpx.ConnectError" and "except Exception" of the
\* outer try
OuterHandler(self, attempt, e) ==
    IF IsInstance(e, "ConnectError") THEN
        IF attempt = self.max_retries THEN GoRaise("TimeoutError")
        ELSE GoSleep(e)
    ELSE
        IF attempt = self.max_retries THEN GoRaise("ApidancePlatformError")
        ELSE GoSleep(e)

\* the inner try with its three handlers
InnerTry(self, response, attempt) ==
    LET sr == _should_retry(self, response, attempt)
        \* the exception the inner try body ends with, None if it has none
        e == IF sr.raises # None THEN sr.raises
             ELSE IF ~sr.value /\ JsonFails(response) THEN "JSONDecodeError"
             ELSE None
    IN  IF e = None THEN
            IF sr.value THEN GoSleep(None) ELSE GoReturn
        ELSE IF IsFatal(e) THEN
            \* "raise" inside the outer try: the outer handlers receive it
            OuterHandler(self, attempt, e)
        ELSE IF IsInstance(e, "RateLimitError") THEN
            IF attempt = self.max_retries
            THEN OuterHandler(self, attempt, e) ELSE GoSleep(None)
        ELSE
            GoBreak(e)

\* outer handlers that go on to the backoff sleep on the final attempt too
Iteration_unbounded(self, response, attempt) ==
    IF response.kind \in {"ConnectError", "Exception"}
    THEN GoSleep(response.kind)
    ELSE InnerTry(self, response, attempt)

Iteration(self, response, attempt) ==
    IF response.kind \in {"ConnectError", "Exception"}
    THEN OuterHandler(self, attempt, response.kind)
    ELSE InnerTry(self, response, attempt)

(***************************************************************************)
(* models.py: Tweet.from_api_response.  A fragment is the dict the mapper  *)
(* is given.  key is the name of its one key (None: the dict is empty),    *)
(* result what lies under key.result.  A result has a legacy dict, a       *)
(* legacy dict under its tweet wrapper, or neither; a legacy dict has      *)
(* id_str, full_text and created_at (None: the key is absent) and under    *)
(* retweeted_status_result nothing (the key is absent) or one dict with    *)
(* the embedded result.  A counter is <<>> (the key is absent) or <<n>>;   *)
(* media is the list under extended_entities.media (<<>>: no such list).   *)
(* Beside legacy a result has the author under core (and under tweet.core  *)
(* in the wrapped shape), the text of a note tweet and a text of its own.  *)
(* A dict all of whose keys are absent is {}.  The user dicts of the model *)
(* carry no created_at.                                                    *)
(***************************************************************************)
EmptyLegacy ==
    [id_str |-> None, full_text |-> None, created_at |-> None,
     retweeted_status_result |-> <<>>, favorite_count |-> <<>>,
     retweet_count |-> <<>>, reply_count |-> <<>>, quote_count |-> <<>>,
     media |-> <<>>]

\* the user dict {}: the value of core.user_results.result when it is absent
EmptyUser ==
    [id |-> None, rest_id |-> None,
     legacy |-> [followers_count |-> <<>>, friends_count |-> <<>>]]

EmptyResult ==
    [legacy |-> EmptyLegacy, core |-> EmptyUser,
     tweet |-> [legacy |-> EmptyLegacy, core |-> EmptyUser],
     note_tweet |-> None, text |-> None]

\* {"tweet_results": {"result": result}}
Envelope(result) == [key |-> "tweet_results", result |-> result]

\* {}
EmptyFragment == [key |-> None, result |-> EmptyResult]

\* values of created_at that are not of the format the mapper parses
MalformedCreatedAts == {"2024-02-22T02:18:49Z"}

CreatedAts ==
    {None, "Thu Feb 22 02:18:49 +0000 2024"} \cup MalformedCreatedAts

\* the legacy dicts whose embedded results are drawn from children
Legacies(children) ==
    [id_str : {None, "1"},
     full_text : {None, "hi"},
     created_at : CreatedAts,
     retweeted_status_result :
        {<<>>} \cup { <<[result |-> c]>> : c \in children },
     favorite_count : {<<>>}, retweet_count : {<<>>}, reply_count : {<<>>},
     quote_count : {<<>>}, media : {<<>>}]

\* the results with at most depth levels of embedded results
RECURSIVE Results(_)
Results(depth) ==
    LET children == IF depth = 0 THEN {} ELSE Results(depth - 1)
    IN  {EmptyResult}
        \cup { [EmptyResult EXCEPT !.legacy = l] : l \in Legacies(children) }
        \cup { [EmptyResult EXCEPT !.tweet.legacy = l] :
                 l \in Legacies(children) }

\* the items of extended_entities.media: a photo, a video, and an item that
\* has neither a type nor a media_url_https
Photo ==
    [type |-> "photo", media_url_https |-> "https://x/1.jpg",
     expanded_url |-> None, duration_millis |-> <<>>]

MediaLists ==
    {<<>>, <<Photo>>,
     <<[type |-> "video", media_url_https |-> "https://x/2.jpg",
        expanded_url |-> "https://x/status/2", duration_millis |-> <<9000>>],
       Photo>>,
     <<[type |-> None, media_url_https |-> None,
        expanded_url |-> "https://x/status/3", duration_millis |-> <<>>]>>}

\* the author dicts under core.user_results.result
Users ==
    {EmptyUser,
     [id |-> "VXNlcjo5", rest_id |-> "9",
      legacy |-> [followers_count |-> <<1800>>, friends_count |-> <<8>>]],
     [id |-> "VXNlcjo5", rest_id |-> "9",
      legacy |-> [followers_count |-> <<>>, friends_count |-> <<>>]]}

\* legacy dicts of tweets that are no retweets, with counters and media
RichLegacies ==
    [id_str : {"1"},
     full_text : {None, "hi"},
     created_at : {"Thu Feb 22 02:18:49 +0000 2024"},
     retweeted_status_result : {<<>>},
     favorite_count : {<<>>, <<5>>}, retweet_count : {<<>>, <<2>>},
     reply_count : {<<>>, <<3>>}, quote_count : {<<>>, <<4>>},
     media : MediaLists]

\* results in the plain shape (result.legacy, result.core) and in the
\* wrapped shape (result.tweet.legacy, result.tweet.core)
RichResults ==
    { [legacy |-> IF wrapped THEN EmptyLegacy ELSE l,
       core |-> IF wrapped THEN EmptyUser ELSE u,
       tweet |-> [legacy |-> IF wrapped THEN l ELSE EmptyLegacy,
                  core |-> IF wrapped THEN u ELSE EmptyUser],
       note_tweet |-> n, text |-> x] :
        l \in RichLegacies, u \in Users, wrapped \in BOOLEAN,
        n \in {None, "hi and the rest of it"}, x \in {None, "h"} }

\* what the mapper is applied to: fragments of timeline entries, and the
\* data object {"tweetResult": {"result": result}} of TweetResultByRestId
Fragments ==
    {EmptyFragment}
    \cup { Envelope(r) : r \in Results(MaxRetweetDepth) }
    \cup { Envelope(r) : r \in RichResults }
    \cup { [key |-> "tweetResult", result |-> r] : r \in Results(0) }

\* how a call of the mapper ends: it has not ended ("pending"), it returned
\* value (<<>>: None, <<tw>>: the Tweet tw), or it raised exc
Pending == [status |-> "pending", exc |-> None, value |-> <<>>]
Mapped(value) == [status |-> "returned", exc |-> None, value |-> value]
MapFails(e) == [status |-> "raised", exc |-> e, value |-> <<>>]

\* a parser that answers the epoch for what it cannot parse
strptime_epoch(s) ==
    IF s = "Thu Feb 22 02:18:49 +0000 2024"
    THEN Mapped(<<[year |-> 2024, month |-> 2, day |-> 22, hour |-> 2,
                   minute |-> 18, second |-> 49, utcoffset |-> 0]>>)
    ELSE Mapped(<<[year |-> 1970, month |-> 1, day |-> 1, hour |-> 0,
                   minute |-> 0, second |-> 0, utcoffset |-> 0]>>)

\* datetime.strptime(s, "%a %b %d %H:%M:%S %z %Y")
strptime(s) ==
    IF s = "Thu Feb 22 02:18:49 +0000 2024"
    THEN Mapped(<<[year |-> 2024, month |-> 2, day |-> 22, hour |-> 2,
                   minute |-> 18, second |-> 49, utcoffset |-> 0]>>)
    ELSE MapFails("ValueError")

\* d.get(key, ""), for a value that reads None when the key is absent
GetOrEmpty(v) == IF v = None THEN "" ELSE v

\* a counter that is taken for absent whatever the dict holds
GetOrZero_absent(counter) == 0

\* d.get(key, 0)
GetOrZero(counter) == IF counter = <<>> THEN 0 ELSE counter[1]

\* the Media built from one item of extended_entities.media
Media(media_item) ==
    LET media_type == IF media_item.type = None
                      THEN "photo" ELSE media_item.type
    IN  [type |-> media_type,
         \* media_item.get("media_url_https", "")
         \*   or media_item.get("expanded_url", "")
         url |-> IF GetOrEmpty(media_item.media_url_https) # ""
                 THEN media_item.media_url_https
                 ELSE GetOrEmpty(media_item.expanded_url),
         preview_url |-> IF media_type = "video"
                         THEN media_item.media_url_https ELSE None,
         duration_ms |-> IF media_type = "video"
                         THEN media_item.duration_millis ELSE <<>>]

\* User.from_api_response, on the counts of the model
User_from_api_response(user_data) ==
    [id |-> GetOrEmpty(user_data.id),
     followers_count |-> GetOrZero(user_data.legacy.followers_count),
     following_count |-> GetOrZero(user_data.legacy.friends_count)]

\* the fragment never handed to the recursive call: the embedded dict itself
RetweetEnvelope_bare(retweet_data) ==
    [key |-> "result", result |-> retweet_data.result]

\* {"tweet_results": {"result": retweet_data.get("result", {})}}
RetweetEnvelope(retweet_data) == Envelope(retweet_data.result)

\* the child reference that is never stored
retweet_status_unset(is_retweet, child) == <<>>

\* the local retweet_status: None, or what the recursive call returned
retweet_status(is_retweet, child) == IF is_retweet THEN child.value ELSE <<>>

RECURSIVE from_api_response(_)
from_api_response(fragment) ==
    LET \* data.get("tweet_results", {}).get("result", {})
        result == IF fragment.key = "tweet_results"
                  THEN fragment.result ELSE EmptyResult
        legacy == IF result.legacy = EmptyLegacy
                  THEN result.tweet.legacy ELSE result.legacy
        is_retweet == legacy.retweeted_status_result # <<>>
        child == IF is_retweet
                 THEN from_api_response(
                        RetweetEnvelope(legacy.retweeted_status_result[1]))
                 ELSE Mapped(<<>>)
        created_at == strptime(GetOrEmpty(legacy.created_at))
        \* result.get("core", {}) or {}
        core == result.core
        user_data == core.legacy
        user == [id |-> GetOrEmpty(core.rest_id),
                 followers_count |-> GetOrZero(user_data.followers_count),
                 following_count |-> GetOrZero(user_data.friends_count)]
        \* "media_list if media_list else None"
        media_list == [i \in 1..Len(legacy.media) |-> Media(legacy.media[i])]
    IN  IF child.status = "raised" THEN child
        ELSE IF created_at.status = "raised" THEN created_at
        ELSE Mapped(<<[id |-> GetOrEmpty(legacy.id_str),
                       text |-> GetOrEmpty(legacy.full_text),
                       created_at |-> created_at.value[1],
                       user |-> user,
                       favorite_count |-> GetOrZero(legacy.favorite_count),
                       retweet_count |-> GetOrZero(legacy.retweet_count),
                       reply_count |-> GetOrZero(legacy.reply_count),
                       quote_count |-> GetOrZero(legacy.quote_count),
                       media |-> media_list,
                       is_retweet |-> is_retweet,
                       retweet_status |-> retweet_status(is_retweet, child)]>>)

(***************************************************************************)
(* TwitterClient.check_balance  --  client.py                              *)
(***************************************************************************)
\* the balance below which __init__ gives up
MinBalance == 100

\* the "code" of the error object of the balance endpoint
BalanceErrorCode == -1

\* the exceptions the outer "except" of check_balance names: what httpx.get
\* raises when the balance endpoint cannot be reached
BalanceCaught ==
    {"ConnectError", "ConnectTimeout", "ReadTimeout", "HTTPError",
     "HTTPStatusError"}

\* the bodies the balance endpoint answers with
BalanceBodies ==
    {"150", "100", "99", "0", "+150", "", "abc", "true", "[1]", "1.5",
     "{\"code\": -1}", "{\"code\": 0}"}

BalanceResponses ==
    { [exc |-> e, text |-> ""] : e \in BalanceCaught }
        \cup { [exc |-> None, text |-> b] : b \in BalanceBodies }

\* a parsed JSON value, as far as check_balance looks at it
JsonValue(type, value, code) == [type |-> type, value |-> value, code |-> code]

\* response.json(): "invalid" stands for json.JSONDecodeError
json(text) ==
    CASE text = "150" -> JsonValue("int", 150, <<>>)
      [] text = "100" -> JsonValue("int", 100, <<>>)
      [] text = "99" -> JsonValue("int", 99, <<>>)
      [] text = "0" -> JsonValue("int", 0, <<>>)
      [] text = "true" -> JsonValue("bool", 1, <<>>)
      [] text = "[1]" -> JsonValue("list", 0, <<>>)
      [] text = "1.5" -> JsonValue("float", 0, <<>>)
      [] text = "{\"code\": -1}" -> JsonValue("dict", 0, <<BalanceErrorCode>>)
      [] text = "{\"code\": 0}" -> JsonValue("dict", 0, <<0>>)
      [] OTHER -> JsonValue("invalid", 0, <<>>)

\* int(response.text): <<n>>, or <<>> for ValueError
int(text) ==
    CASE text = "150" -> <<150>>
      [] text = "100" -> <<100>>
      [] text = "99" -> <<99>>
      [] text = "0" -> <<0>>
      [] text = "+150" -> <<150>>
      [] OTHER -> <<>>

\* what check_balance gives: a value of Python type "int" or "bool", or the
\* exception exc that leaves it
Balance(type, value) == [exc |-> None, type |-> type, value |-> value]

\* "try: return int(response.text) except ValueError: return 0"
IntOrZero(text) == IF int(text) # <<>> THEN Balance("int", int(text)[1])
                   ELSE Balance("int", 0)

check_balance(r) ==
    IF r.exc # None
    THEN IF r.exc \in BalanceCaught THEN Balance("int", 0)
         ELSE [Balance("int", 0) EXCEPT !.exc = r.exc]
    ELSE LET data == json(r.text)
         IN  IF data.type = "invalid"
             THEN IF r.text # "" THEN IntOrZero(r.text) ELSE Balance("int", 0)
             \* "isinstance(data, int)": a bool is an int
             ELSE IF data.type \in {"int", "bool"}
             THEN Balance(data.type, data.value)
             ELSE IF data.type = "dict" /\ data.code = <<BalanceErrorCode>>
             THEN Balance("int", 0)
             \* "return int(response.text)", whose ValueError is caught
             ELSE IF int(r.text) # <<>> THEN Balance("int", int(r.text)[1])
             ELSE IntOrZero(r.text)

(***************************************************************************)
(* parse_markdown_to_richtext  --  utils/markdown.py                       *)
(*                                                                         *)
(* A text is a sequence of one-character strings.  Positions are those of  *)
(* Python: the first character is at 0.                                    *)
(***************************************************************************)
\* the longest input, in segments of plain text and marked spans
MaxSegments == 3

\* the character at position p, "" outside the text
At(text, p) == IF p >= 0 /\ p < Len(text) THEN text[p + 1] ELSE ""

\* s[a:b], with the clamping of Python slices
PySlice(s, a, b) ==
    LET n == Len(s)
        Clamp(i) == IF i < 0 THEN (IF i + n < 0 THEN 0 ELSE i + n)
                    ELSE IF i > n THEN n ELSE i
    IN  SubSeq(s, Clamp(a) + 1, Clamp(b))

\* "[^c]+?" followed by the literal c: the characters other than c from p on
RECURSIVE Run(_, _, _)
Run(text, p, c) ==
    IF p < Len(text) /\ text[p + 1] # c THEN 1 + Run(text, p + 1, c) ELSE 0

\* n times the character c at position p
Delimiter(text, p, c, n) == \A q \in p..(p + n - 1) : At(text, q) = c

\* one alternative of a pattern tried at position i: n markers c, a run of
\* other characters, n markers c; with "guarded", no c right before the
\* opening and none right after the closing markers.  <<end>>, or <<>> when
\* the alternative does not match at i.
MatchSpan(text, i, c, n, guarded) ==
    LET k == Run(text, i + n, c)
        j == i + n + k
    IN  IF /\ guarded => At(text, i - 1) # c
           /\ Delimiter(text, i, c, n)
           /\ k >= 1
           /\ Delimiter(text, j, c, n)
           /\ guarded => At(text, j + n) # c
        THEN <<j + n>>
        ELSE <<>>

\* the pattern of a mark type tried at position i, the star alternative
\* first:
\*   Bold    (?<!\*)\*\*([^*]+?)\*\*(?!\*)|__([^_]+?)__
\*   Italic  (?<!\*)\*([^*]+?)\*(?!\*)|(?<!_)_([^_]+?)_(?!_)
Pattern(mark_type, text, i) ==
    LET n == IF mark_type = "Bold" THEN 2 ELSE 1
        star == MatchSpan(text, i, "*", n, TRUE)
    IN  IF star # <<>> THEN star
        ELSE MatchSpan(text, i, "_", n, mark_type = "Italic")

\* re.finditer: the leftmost match from pos on, then the matches after it
RECURSIVE finditer(_, _, _)
finditer(mark_type, text, pos) ==
    IF pos >= Len(text) THEN <<>>
    ELSE LET m == Pattern(mark_type, text, pos)
         IN  IF m # <<>>
             THEN <<[start |-> pos, end |-> m[1]]>>
                      \o finditer(mark_type, text, m[1])
             ELSE finditer(mark_type, text, pos + 1)

\* the loop of find_marks
RECURSIVE KeepMarks(_, _, _)
KeepMarks(matches, last_end, mark_type) ==
    IF matches = <<>> THEN <<>>
    ELSE LET match == Head(matches)
         IN  IF match.start >= last_end
             THEN <<[start |-> match.start, end |-> match.end,
                     types |-> mark_type]>>
                      \o KeepMarks(Tail(matches), match.end, mark_type)
             ELSE KeepMarks(Tail(matches), last_end, mark_type)

find_marks(mark_type, text) ==
    KeepMarks(finditer(mark_type, text, 0), 0, mark_type)

\* "marks.sort(key=lambda x: (x.start, x.end))": a stable sort
RECURSIVE InsertMark(_, _)
InsertMark(mark, sorted) ==
    IF sorted = <<>> THEN <<mark>>
    ELSE IF \/ Head(sorted).start < mark.start
            \/ Head(sorted).start = mark.start /\ Head(sorted).end <= mark.end
    THEN <<Head(sorted)>> \o InsertMark(mark, Tail(sorted))
    ELSE <<mark>> \o sorted

RECURSIVE SortMarks(_, _)
SortMarks(marks, sorted) ==
    IF marks = <<>> THEN sorted
    ELSE SortMarks(Tail(marks), InsertMark(Head(marks), sorted))

Tag(from_index, to_index, type) ==
    [from_index |-> from_index, to_index |-> to_index,
     richtext_types |-> <<type>>]

\* the loop over the sorted marks
RECURSIVE ProcessMarks(_, _, _, _, _)
ProcessMarks(marks, text, plain_text, offset, richtext_tags) ==
    IF marks = <<>>
    THEN [done |-> TRUE, plain_text |-> plain_text, tags |-> richtext_tags]
    ELSE LET mark == Head(marks)
             width == IF mark.types = "Bold" THEN 2 ELSE 1
             real_start == mark.start - offset
             content == PySlice(text, mark.start + width, mark.end - width)
         IN  ProcessMarks(
                 Tail(marks), text,
                 PySlice(plain_text, 0, mark.start - offset) \o content
                     \o PySlice(plain_text, mark.end - offset,
                                Len(plain_text)),
                 offset + (mark.end - mark.start - Len(content)),
                 Append(richtext_tags,
                        Tag(real_start, real_start + Len(content),
                            mark.types)))

parse_markdown_to_richtext(text) ==
    ProcessMarks(
        SortMarks(find_marks("Bold", text) \o find_marks("Italic", text),
                  <<>>),
        text, text, 0, <<>>)

\* the inputs: up to MaxSegments segments, each a stretch of plain text or
\* a span of text between two equal markers
Segments ==
    { [kind |-> "plain", marker |-> <<>>, content |-> c] :
        c \in {<<"a">>, <<" ">>} }
    \cup { [kind |-> "Bold", marker |-> m, content |-> <<"a">>] :
             m \in {<<"*", "*">>, <<"_", "_">>} }
    \cup { [kind |-> "Italic", marker |-> m, content |-> <<"a">>] :
             m \in {<<"*">>, <<"_">>} }

SegmentLists ==
    UNION { [1..n -> Segments] : n \in 0..MaxSegments }

\* the markdown text of a list of segments
RECURSIVE Render(_)
Render(segments) ==
    IF segments = <<>> THEN <<>>
    ELSE Head(segments).marker \o Head(segments).content
             \o Head(segments).marker \o Render(Tail(segments))

(***************************************************************************)
(* State.                                                                  *)
(***************************************************************************)
VARIABLES
    threads,     \* the callers that use the one client
    self,        \* the client's retry configuration, set by __init__
    environ,     \* X_AUTH_TOKEN of the process environment
    op,          \* op[t]: the operation caller t runs
    pc,          \* pc[t]: where caller t is
    endpoint,    \* _make_request: the endpoint argument
    headers,     \* _make_request: the AuthToken header of the local headers
    attempt,     \* _make_request: the loop variable
    last_error,  \* _make_request: the local last_error
    received,    \* what each HTTP attempt of the current call met, in order
    slept,       \* the delays passed to time.sleep in the current call
    response,    \* the body _make_request returned to the operation
    count,       \* the count argument of a paginated operation
    all_tweets,  \* the local all_tweets (all_followers): the accumulated ids
    cursor,      \* the local cursor (0: None)
    pages,       \* page requests the operation has issued
    before,      \* all_tweets as it was when the latest page was received
    data,        \* the fragment upstream holds for the tweet that is mapped
    tweet,       \* how Tweet.from_api_response ended on it
    user,        \* how User.from_api_response ended on its author
    api_key,     \* __init__: the api_key argument ("": None or empty)
    getenv,      \* APIDANCE_API_KEY of the process environment ("": unset)
    balance_response,  \* what the latest GET /key/<api_key> met
    balance,     \* what the latest check_balance returned (<<>>: not called)
    init,        \* where __init__ is, or how it ended
    markdown,    \* the text given to parse_markdown_to_richtext
    richtext,    \* what parse_markdown_to_richtext returned for it
    result       \* result[t]: how the operation ended

vars == <<threads, self, environ, op, pc, endpoint, headers, attempt,
          last_error, received, slept, response, count, all_tweets, cursor,
          pages, before, data, tweet, user, api_key, getenv,
          balance_response, balance, init, markdown, richtext, result>>

requestVars == <<endpoint, headers, attempt, last_error, received, slept>>
pageVars == <<count, all_tweets, cursor, pages, before>>
mapVars == <<data, tweet, user>>
initVars == <<api_key, getenv, balance_response, balance, init>>
richVars == <<markdown, richtext>>

\* os.getenv("X_AUTH_TOKEN")
Unset == [set |-> FALSE, value |-> <<>>]
TokenEnv == {Unset} \cup { [set |-> TRUE, value |-> tk] : tk \in Tokens }

\* "if token:"
Truthy(token) == token.set /\ token.value # <<>>

NoAuthToken == [present |-> FALSE, value |-> <<>>]

\* the configurations __init__ accepts
Clients ==
    [max_retries : 0..MaxRetriesBound,
     initial_retry_delay : DefaultInitialRetryDelay..MaxInitialDelay,
     max_retry_delay : {SmallMaxRetryDelay, DefaultMaxRetryDelay},
     backoff_factor : DefaultBackoffFactor..MaxBackoffFactor]

\* the default delays, with a small attempt budget
OpsClients ==
    [max_retries : 1..OpsMaxRetries,
     initial_retry_delay : {DefaultInitialRetryDelay},
     max_retry_delay : {DefaultMaxRetryDelay},
     backoff_factor : {DefaultBackoffFactor}]

\* how an operation ended: it is still running ("none"), it returned a parsed
\* body, a list of tweets or a flag ("return"), or it raised exc ("raise")
NoResult ==
    [kind |-> "none", exc |-> None, body |-> JsonNull, tweets |-> <<>>,
     flag |-> FALSE]
RaiseResult(e) == [NoResult EXCEPT !.kind = "raise", !.exc = e]
BodyResult(r) == [NoResult EXCEPT !.kind = "return", !.body = r]
TweetsResult(s) == [NoResult EXCEPT !.kind = "return", !.tweets = s]
FlagResult(b) == [NoResult EXCEPT !.kind = "return", !.flag = b]

\* no fragment has been mapped
NothingMapped == data = EmptyFragment /\ tweet = Pending /\ user = Pending

\* the client has been constructed: the balance endpoint answered 150
Constructed ==
    /\ api_key = "k"
    /\ getenv = ""
    /\ balance_response = [exc |-> None, text |-> "150"]
    /\ balance = <<Balance("int", 150)>>
    /\ init = "constructed"

\* no text has been parsed
NoRichText == [done |-> FALSE, plain_text |-> <<>>, tags |-> <<>>]
NothingParsed == markdown = <<>> /\ richtext = NoRichText

InitThreads(T) ==
    /\ threads = T
    /\ op = [t \in T |-> None]
    /\ pc = [t \in T |-> "idle"]
    /\ endpoint = [t \in T |-> None]
    /\ headers = [t \in T |-> NoAuthToken]
    /\ attempt = [t \in T |-> 0]
    /\ last_error = [t \in T |-> None]
    /\ received = [t \in T |-> <<>>]
    /\ slept = [t \in T |-> <<>>]
    /\ response = [t \in T |-> JsonNull]
    /\ count = [t \in T |-> 0]
    /\ all_tweets = [t \in T |-> <<>>]
    /\ cursor = [t \in T |-> 0]
    /\ pages = [t \in T |-> 0]
    /\ before = [t \in T |-> <<>>]
    /\ result = [t \in T |-> NoResult]

Init ==
    /\ self \in Clients
    /\ environ \in TokenEnv
    /\ InitThreads({1})
    /\ NothingMapped
    /\ Constructed
    /\ NothingParsed

(***************************************************************************)
(* TwitterClient._make_request                                             *)
(***************************************************************************)
\* an exception leaves _make_request: none of the operations catches it
Raise(t, e) ==
    /\ pc' = [pc EXCEPT ![t] = "done"]
    /\ result' = [result EXCEPT ![t] = RaiseResult(e)]
    /\ UNCHANGED response

\* _make_request returns body r to the operation that called it
Return(t, r) ==
    /\ response' = [response EXCEPT ![t] = r]
    /\ IF op[t] = "_make_request"
       THEN /\ pc' = [pc EXCEPT ![t] = "done"]
            /\ result' = [result EXCEPT ![t] = BodyResult(r)]
       ELSE /\ pc' = [pc EXCEPT ![t] = "returned"]
            /\ UNCHANGED result

\* the statements after the loop: "if last_error: raise last_error", and
\* the implicit "return None"
AfterLoop(t, err) ==
    IF err # None THEN Raise(t, err) ELSE Return(t, JsonNull)

\* a caller invokes _make_request itself
DirectEndpoints == {"/graphql/UserByScreenName", "/graphql/CreateTweet"}

Call_make_request(t) ==
    /\ init = "constructed"
    /\ pc[t] = "idle"
    /\ op' = [op EXCEPT ![t] = "_make_request"]
    /\ \E ep \in DirectEndpoints : endpoint' = [endpoint EXCEPT ![t] = ep]
    /\ pc' = [pc EXCEPT ![t] = "headers"]
    /\ UNCHANGED <<mapVars, initVars, richVars,
                   threads, self, environ, headers, attempt, last_error,
                   received, slept, response, pageVars, result>>

\* from the entry of _make_request to the first iteration of the loop
_make_request_headers(t) ==
    /\ pc[t] = "headers"
    /\ received' = [received EXCEPT ![t] = <<>>]
    /\ slept' = [slept EXCEPT ![t] = <<>>]
    /\ LET token == environ
           checked == endpoint[t] \in auth_required_endpoints /\ Truthy(token)
       IN  IF checked /\ ~TokenREMatch(token.value)
           THEN /\ Raise(t, "AuthTokenError")
                /\ UNCHANGED <<headers, attempt, last_error>>
           ELSE /\ headers' = [headers EXCEPT ![t] =
                       IF checked
                       THEN [present |-> TRUE, value |-> token.value]
                       ELSE NoAuthToken]
                /\ last_error' = [last_error EXCEPT ![t] = None]
                /\ IF self.max_retries >= 1
                   THEN /\ attempt' = [attempt EXCEPT ![t] = 1]
                        /\ pc' = [pc EXCEPT ![t] = "request"]
                        /\ UNCHANGED <<response, result>>
                   ELSE /\ AfterLoop(t, None)
                        /\ UNCHANGED attempt
    /\ UNCHANGED <<mapVars, initVars, richVars,
                   threads, self, environ, op, endpoint, pageVars>>

\* one iteration of the loop: the HTTP request, the classification of what
\* came back, and the handlers
_make_request_attempt(t) ==
    /\ pc[t] = "request"
    /\ \E r \in Upstream(endpoint[t]) :
         LET it == Iteration(self, r, attempt[t])
         IN  /\ received' = [received EXCEPT ![t] = Append(@, r)]
             /\ last_error' = [last_error EXCEPT ![t] =
                     IF it.last # None THEN it.last ELSE @]
             /\ CASE it.next = "sleep" ->
                       /\ slept' = [slept EXCEPT ![t] =
                              Append(@, _calculate_retry_delay(self, attempt[t]))]
                       /\ pc' = [pc EXCEPT ![t] = "sleep"]
                       /\ UNCHANGED <<response, result>>
                  [] it.next = "return" ->
                       /\ Return(t, r)
                       /\ UNCHANGED slept
                  [] it.next = "raise" ->
                       /\ Raise(t, it.exc)
                       /\ UNCHANGED slept
    /\ UNCHANGED <<mapVars, initVars, richVars,
                   threads, self, environ, op, endpoint, headers, attempt,
                   pageVars>>

\* a loop whose counter is an attribute of the client, which every caller
\* of the client advances
_make_request_sleep_shared(t) ==
    /\ pc[t] = "sleep"
    /\ IF attempt[t] < self.max_retries
       THEN /\ attempt' = [u \in threads |-> attempt[u] + 1]
            /\ pc' = [pc EXCEPT ![t] = "request"]
            /\ UNCHANGED <<response, result>>
       ELSE /\ AfterLoop(t, last_error[t])
            /\ UNCHANGED attempt
    /\ UNCHANGED <<mapVars, initVars, richVars,
                   threads, self, environ, op, endpoint, headers, last_error,
                   received, slept, pageVars>>

\* time.sleep(delay) is over: the loop takes its next value, or ends
_make_request_sleep(t) ==
    /\ pc[t] = "sleep"
    /\ IF attempt[t] < self.max_retries
       THEN /\ attempt' = [attempt EXCEPT ![t] = @ + 1]
            /\ pc' = [pc EXCEPT ![t] = "request"]
            /\ UNCHANGED <<response, result>>
       ELSE /\ AfterLoop(t, last_error[t])
            /\ UNCHANGED attempt
    /\ UNCHANGED <<mapVars, initVars, richVars,
                   threads, self, environ, op, endpoint, headers, last_error,
                   received, slept, pageVars>>

Next ==
    \/ \E t \in threads : Call_make_request(t)
    \/ \E t \in threads : _make_request_headers(t)
    \/ \E t \in threads : _make_request_attempt(t)
    \/ \E t \in threads : _make_request_sleep(t)

Spec == Init /\ [][Next]_vars

(***************************************************************************)
(* TwitterClient.search_timeline                                           *)
(***************************************************************************)
Counts == {-1} \cup (0..MaxPageLen + 1)

Ids(tweets) == { tweets[i] : i \in 1..Len(tweets) }

\* the loop of search_timeline asks for its next page
NextPage(t) ==
    /\ pages[t] < MaxPageRequests
    /\ pages' = [pages EXCEPT ![t] = @ + 1]
    /\ pc' = [pc EXCEPT ![t] = "headers"]
    /\ UNCHANGED result

\* the operation returns
Done(t, res) ==
    /\ pc' = [pc EXCEPT ![t] = "done"]
    /\ result' = [result EXCEPT ![t] = res]
    /\ UNCHANGED pages

Call_search_timeline(t) ==
    /\ pc[t] = "idle"
    /\ op' = [op EXCEPT ![t] = "search_timeline"]
    /\ endpoint' = [endpoint EXCEPT ![t] = "/graphql/SearchTimeline"]
    /\ \E c \in Counts : count' = [count EXCEPT ![t] = c]
    /\ all_tweets' = [all_tweets EXCEPT ![t] = <<>>]
    /\ cursor' = [cursor EXCEPT ![t] = 0]
    /\ pages' = [pages EXCEPT ![t] = 1]
    /\ pc' = [pc EXCEPT ![t] = "headers"]
    /\ UNCHANGED <<mapVars, initVars, richVars,
                   threads, self, environ, headers, attempt, last_error,
                   received, slept, response, before, result>>

\* the rest of one iteration of "while True", from the body _make_request
\* returned
search_timeline_page(t) ==
    /\ pc[t] = "returned"
    /\ op[t] = "search_timeline"
    /\ before' = [before EXCEPT ![t] = all_tweets[t]]
    /\ IF response[t].kind = "null" \/ DataIsNull(response[t])
       THEN \* response.get on None, or .get on the None that is its data
            /\ Done(t, RaiseResult("AttributeError"))
            /\ UNCHANGED <<all_tweets, cursor>>
       ELSE LET \* response.get("data", {}) ... .get("instructions", [])
                timeline == IF response[t].kind = "data"
                            THEN response[t].data
                            ELSE EmptyData
                new_tweets == timeline.entries
                seen == Ids(all_tweets[t])
                extended == all_tweets[t] \o
                    SelectSeq(new_tweets, LAMBDA id : id \notin seen)
                next_cursor == IF timeline.cursor # 0
                               THEN timeline.cursor ELSE cursor[t]
            IN  IF count[t] # -1 /\ Len(extended) >= count[t]
                THEN /\ all_tweets' = [all_tweets EXCEPT ![t] =
                            SubSeq(extended, 1, count[t])]
                     /\ Done(t, TweetsResult(SubSeq(extended, 1, count[t])))
                     /\ UNCHANGED cursor
                ELSE /\ all_tweets' = [all_tweets EXCEPT ![t] = extended]
                     /\ cursor' = [cursor EXCEPT ![t] = next_cursor]
                     /\ IF next_cursor = 0 \/ new_tweets = <<>>
                        THEN Done(t, TweetsResult(extended))
                        ELSE NextPage(t)
    /\ UNCHANGED <<mapVars, initVars, richVars,
                   threads, self, environ, op, requestVars, response, count>>

(***************************************************************************)
(* TwitterClient.favorite_tweet                                            *)
(***************************************************************************)
Call_favorite_tweet(t) ==
    /\ pc[t] = "idle"
    /\ op' = [op EXCEPT ![t] = "favorite_tweet"]
    /\ endpoint' = [endpoint EXCEPT ![t] = "/graphql/FavoriteTweet"]
    /\ pages' = [pages EXCEPT ![t] = 1]
    /\ pc' = [pc EXCEPT ![t] = "headers"]
    /\ UNCHANGED <<mapVars, initVars, richVars,
                   threads, self, environ, headers, attempt, last_error,
                   received, slept, response, count, all_tweets, cursor,
                   before, result>>

\* the statements after the call of _make_request
favorite_tweet_result(t) ==
    /\ pc[t] = "returned"
    /\ op[t] = "favorite_tweet"
    /\ LET r == response[t]
       IN  Done(t,
             IF r = DataBody(FavoriteDone) THEN FlagResult(TRUE)
             \* len(response) with response = None
             ELSE IF r.kind = "null" THEN RaiseResult("TypeError")
             \* response["errors"] on a body without that key
             ELSE IF r.kind # "errors" THEN RaiseResult("KeyError")
             ELSE IF r.code = AlreadyFavoritedCode THEN FlagResult(TRUE)
             ELSE IF r.code = NotFoundCode THEN FlagResult(FALSE)
             ELSE FlagResult(FALSE))
    /\ UNCHANGED <<mapVars, initVars, richVars,
                   threads, self, environ, op, requestVars, response, count,
                   all_tweets, cursor, before>>

(***************************************************************************)
(* The other operations that read a timeline.                              *)
(***************************************************************************)
\* the chain response.get("data", {}).get(...)...: a body without the path
\* reads as one without entries
Timeline(r) == IF r.kind = "data" THEN r.data ELSE EmptyData

\* a paginated operation is entered: its locals are initialised and its
\* first page request starts
Enter(t, name, ep) ==
    /\ init = "constructed"
    /\ pc[t] = "idle"
    /\ op' = [op EXCEPT ![t] = name]
    /\ endpoint' = [endpoint EXCEPT ![t] = ep]
    /\ \E c \in Counts : count' = [count EXCEPT ![t] = c]
    /\ all_tweets' = [all_tweets EXCEPT ![t] = <<>>]
    /\ cursor' = [cursor EXCEPT ![t] = 0]
    /\ pages' = [pages EXCEPT ![t] = 1]
    /\ pc' = [pc EXCEPT ![t] = "headers"]
    /\ UNCHANGED <<mapVars, initVars, richVars,
                   threads, self, environ, headers, attempt, last_error,
                   received, slept, response, before, result>>

(***************************************************************************)
(* TwitterClient.get_user_tweets                                           *)
(***************************************************************************)
_extract_tweets_from_response(r) == Timeline(r).entries

_get_bottom_cursor(r) == Timeline(r).cursor

\* some entry of the page is a TimelineTimelineItem
has_more_tweets(r) == Timeline(r).entries # <<>>

Call_get_user_tweets(t) == Enter(t, "get_user_tweets", "/graphql/UserTweets")

get_user_tweets_page(t) ==
    /\ pc[t] = "returned"
    /\ op[t] = "get_user_tweets"
    /\ before' = [before EXCEPT ![t] = all_tweets[t]]
    /\ IF response[t].kind = "null" \/ DataIsNull(response[t])
       THEN \* response.get on None, or .get on the None that is its data
            /\ Done(t, RaiseResult("AttributeError"))
            /\ UNCHANGED <<all_tweets, cursor>>
       ELSE LET new_tweets == _extract_tweets_from_response(response[t])
                seen == Ids(all_tweets[t])
                extended == all_tweets[t] \o
                    SelectSeq(new_tweets, LAMBDA id : id \notin seen)
                next_cursor == _get_bottom_cursor(response[t])
            IN  IF count[t] # -1 /\ Len(extended) >= count[t]
                THEN /\ all_tweets' = [all_tweets EXCEPT ![t] =
                            SubSeq(extended, 1, count[t])]
                     /\ Done(t, TweetsResult(SubSeq(extended, 1, count[t])))
                     /\ UNCHANGED cursor
                ELSE /\ all_tweets' = [all_tweets EXCEPT ![t] = extended]
                     /\ IF ~has_more_tweets(response[t])
                        THEN /\ Done(t, TweetsResult(extended))
                             /\ UNCHANGED cursor
                        ELSE /\ cursor' = [cursor EXCEPT ![t] = next_cursor]
                             /\ IF next_cursor = 0
                                THEN Done(t, TweetsResult(extended))
                                ELSE NextPage(t)
    /\ UNCHANGED <<mapVars, initVars, richVars,
                   threads, self, environ, op, requestVars, response, count>>

(***************************************************************************)
(* TwitterClient.get_list_latest_tweets                                    *)
(***************************************************************************)
Call_get_list_latest_tweets(t) ==
    Enter(t, "get_list_latest_tweets", "/graphql/ListLatestTweetsTimeline")

get_list_latest_tweets_page(t) ==
    /\ pc[t] = "returned"
    /\ op[t] = "get_list_latest_tweets"
    /\ before' = [before EXCEPT ![t] = all_tweets[t]]
    /\ IF response[t].kind = "null" \/ DataIsNull(response[t])
       THEN \* response.get on None, or .get on the None that is its data
            /\ Done(t, RaiseResult("AttributeError"))
            /\ UNCHANGED <<all_tweets, cursor>>
       ELSE LET timeline == Timeline(response[t])
                new_tweets == timeline.entries
                extended == all_tweets[t] \o new_tweets
            IN  IF timeline.shape \in {"bare", "no_instructions"}
                THEN \* "if not timeline: break"
                     /\ Done(t, TweetsResult(all_tweets[t]))
                     /\ UNCHANGED <<all_tweets, cursor>>
                ELSE /\ cursor' = [cursor EXCEPT ![t] = timeline.cursor]
                     /\ IF count[t] # -1 /\ Len(extended) >= count[t]
                        THEN /\ all_tweets' = [all_tweets EXCEPT ![t] =
                                    SubSeq(extended, 1, count[t])]
                             /\ Done(t, TweetsResult(
                                    SubSeq(extended, 1, count[t])))
                        ELSE /\ all_tweets' =
                                    [all_tweets EXCEPT ![t] = extended]
                             /\ IF timeline.cursor = 0 \/ new_tweets = <<>>
                                THEN Done(t, TweetsResult(extended))
                                ELSE NextPage(t)
    /\ UNCHANGED <<mapVars, initVars, richVars,
                   threads, self, environ, op, requestVars, response, count>>

(***************************************************************************)
(* TwitterClient.get_following                                             *)
(***************************************************************************)
Call_get_following(t) ==
    /\ pc[t] = "idle"
    /\ op' = [op EXCEPT ![t] = "get_following"]
    /\ endpoint' = [endpoint EXCEPT ![t] = "/graphql/Following"]
    /\ pages' = [pages EXCEPT ![t] = 1]
    /\ pc' = [pc EXCEPT ![t] = "headers"]
    /\ UNCHANGED <<mapVars, initVars, richVars,
                   threads, self, environ, headers, attempt, last_error,
                   received, slept, response, count, all_tweets, cursor,
                   before, result>>

\* the statements after the call of _make_request
get_following_result(t) ==
    /\ pc[t] = "returned"
    /\ op[t] = "get_following"
    /\ Done(t, IF response[t].kind = "null"
               THEN \* "if not isinstance(response, dict): return []"
                    TweetsResult(<<>>)
               ELSE IF DataIsNull(response[t])
               THEN \* .get on the None that is its data
                    RaiseResult("AttributeError")
               ELSE TweetsResult(Timeline(response[t]).entries))
    /\ UNCHANGED <<mapVars, initVars, richVars,
                   threads, self, environ, op, requestVars, response, count,
                   all_tweets, cursor, before>>

(***************************************************************************)
(* TwitterClient.get_followers and TwitterClient.get_followers_you_know    *)
(***************************************************************************)
\* variables["count"]
RequestCount(n) == IF n > 0 THEN Min(n, BatchLimit) ELSE BatchLimit

\* "except (KeyError, IndexError): break"
LookupFailure(e) == IF e \in {"KeyError", "IndexError"} THEN "break" ELSE e

\* response["data"]["user"]["result"]["timeline"]["timeline"]
\* ["instructions"][-1]["entries"]: the entries are found ("entries"), the
\* look-up fails and the loop is left ("break"), or an error gets out
FollowersLookup(r) ==
    IF r.kind = "null" \/ DataIsNull(r) THEN LookupFailure("TypeError")
    ELSE IF r.kind # "data" THEN LookupFailure("KeyError")
    ELSE IF r.data.shape = "timeline" THEN "entries"
    ELSE IF r.data.shape = "no_instructions" THEN LookupFailure("IndexError")
    ELSE LookupFailure("KeyError")

\* the rest of one iteration of "while True" of either operation
FollowersPage(t) ==
    /\ pc[t] = "returned"
    /\ before' = [before EXCEPT ![t] = all_tweets[t]]
    /\ LET found == FollowersLookup(response[t])
           entries == response[t].data
           extended == all_tweets[t] \o entries.entries
       IN  IF found = "break"
           THEN /\ Done(t, TweetsResult(all_tweets[t]))
                /\ UNCHANGED <<all_tweets, cursor>>
           ELSE IF found # "entries"
           THEN /\ Done(t, RaiseResult(found))
                /\ UNCHANGED <<all_tweets, cursor>>
           ELSE IF count[t] # -1 /\ Len(extended) >= count[t]
           THEN /\ all_tweets' = [all_tweets EXCEPT ![t] =
                       SubSeq(extended, 1, count[t])]
                /\ Done(t, TweetsResult(SubSeq(extended, 1, count[t])))
                /\ UNCHANGED cursor
           ELSE /\ all_tweets' = [all_tweets EXCEPT ![t] = extended]
                /\ cursor' = [cursor EXCEPT ![t] = entries.cursor]
                /\ IF entries.cursor = 0
                   THEN Done(t, TweetsResult(extended))
                   \* len(entries) counts the cursor entry too
                   ELSE IF /\ count[t] > 0
                           /\ Len(entries.entries) + 1 < RequestCount(count[t])
                   THEN Done(t, TweetsResult(extended))
                   ELSE NextPage(t)
    /\ UNCHANGED <<mapVars, initVars, richVars,
                   threads, self, environ, op, requestVars, response, count>>

Call_get_followers(t) == Enter(t, "get_followers", "/graphql/Followers")

get_followers_page(t) == op[t] = "get_followers" /\ FollowersPage(t)

Call_get_followers_you_know(t) ==
    Enter(t, "get_followers_you_know", "/graphql/FollowersYouKnow")

get_followers_you_know_page(t) ==
    op[t] = "get_followers_you_know" /\ FollowersPage(t)

\* the public operations, run on a client with the default delays
InitOps ==
    /\ self \in OpsClients
    /\ environ \in TokenEnv
    /\ InitThreads({1})
    /\ NothingMapped
    /\ Constructed
    /\ NothingParsed

NextOps ==
    \/ \E t \in threads : Call_search_timeline(t)
    \/ \E t \in threads : search_timeline_page(t)
    \/ \E t \in threads : Call_favorite_tweet(t)
    \/ \E t \in threads : favorite_tweet_result(t)
    \/ \E t \in threads : _make_request_headers(t)
    \/ \E t \in threads : _make_request_attempt(t)
    \/ \E t \in threads : _make_request_sleep(t)

SpecOps == InitOps /\ [][NextOps]_vars

\* the operations that read a timeline, on the same client; the token of the
\* environment is absent, well formed or malformed
PagingTokenEnv ==
    {Unset, [set |-> TRUE, value |-> Rep("a", AuthTokenLen)],
     [set |-> TRUE, value |-> Rep("A", AuthTokenLen)]}

InitPaging ==
    /\ self \in OpsClients
    /\ environ \in PagingTokenEnv
    /\ InitThreads({1})
    /\ NothingMapped
    /\ Constructed
    /\ NothingParsed

NextPaging ==
    \/ \E t \in threads : Call_search_timeline(t)
    \/ \E t \in threads : search_timeline_page(t)
    \/ \E t \in threads : Call_get_user_tweets(t)
    \/ \E t \in threads : get_user_tweets_page(t)
    \/ \E t \in threads : Call_get_list_latest_tweets(t)
    \/ \E t \in threads : get_list_latest_tweets_page(t)
    \/ \E t \in threads : Call_get_following(t)
    \/ \E t \in threads : get_following_result(t)
    \/ \E t \in threads : Call_get_followers(t)
    \/ \E t \in threads : get_followers_page(t)
    \/ \E t \in threads : Call_get_followers_you_know(t)
    \/ \E t \in threads : get_followers_you_know_page(t)
    \/ \E t \in threads : _make_request_headers(t)
    \/ \E t \in threads : _make_request_attempt(t)
    \/ \E t \in threads : _make_request_sleep(t)

SpecPaging == InitPaging /\ [][NextPaging]_vars

(***************************************************************************)
(* The mapper on its own, and TwitterClient.tweet_result_by_rest_id.       *)
(***************************************************************************)
\* Tweet.from_api_response is applied to the fragment of a timeline entry
Call_from_api_response(t) ==
    /\ pc[t] = "idle"
    /\ data.key # "tweetResult"
    /\ op' = [op EXCEPT ![t] = "from_api_response"]
    /\ tweet' = from_api_response(data)
    /\ pc' = [pc EXCEPT ![t] = "done"]
    /\ result' = [result EXCEPT ![t] =
           IF tweet'.status = "raised" THEN RaiseResult(tweet'.exc)
           ELSE [NoResult EXCEPT !.kind = "return"]]
    /\ UNCHANGED <<initVars, richVars, threads, self, environ, data, user, requestVars, response,
                   pageVars>>

\* the user dict the fragment carries for its author
AuthorOf(fragment) ==
    IF fragment.result.legacy = EmptyLegacy
    THEN fragment.result.tweet.core ELSE fragment.result.core

\* User.from_api_response is applied to the user dict of a timeline entry
Call_User_from_api_response(t) ==
    /\ pc[t] = "idle"
    /\ data.key = "tweet_results"
    /\ AuthorOf(data) # EmptyUser
    /\ op' = [op EXCEPT ![t] = "User.from_api_response"]
    /\ user' = Mapped(<<User_from_api_response(AuthorOf(data))>>)
    /\ pc' = [pc EXCEPT ![t] = "done"]
    /\ result' = [result EXCEPT ![t] = [NoResult EXCEPT !.kind = "return"]]
    /\ UNCHANGED <<initVars, richVars, threads, self, environ, data, tweet, requestVars, response,
                   pageVars>>

Call_tweet_result_by_rest_id(t) ==
    /\ pc[t] = "idle"
    /\ data.key = "tweetResult"
    /\ op' = [op EXCEPT ![t] = "tweet_result_by_rest_id"]
    /\ endpoint' = [endpoint EXCEPT ![t] = "/graphql/TweetResultByRestId"]
    /\ pages' = [pages EXCEPT ![t] = 1]
    /\ pc' = [pc EXCEPT ![t] = "headers"]
    /\ UNCHANGED <<mapVars, initVars, richVars,
                   threads, self, environ, headers, attempt,
                   last_error, received, slept, response, count, all_tweets,
                   cursor, before, result>>

\* "return Tweet.from_api_response(response["data"])"
tweet_result_by_rest_id_result(t) ==
    /\ pc[t] = "returned"
    /\ op[t] = "tweet_result_by_rest_id"
    /\ LET r == response[t]
           mapped ==
               \* None["data"]
               IF r.kind = "null" THEN MapFails("TypeError")
               \* a body without the key
               ELSE IF r.kind # "data" THEN MapFails("KeyError")
               \* None.get
               ELSE IF DataIsNull(r) THEN MapFails("AttributeError")
               ELSE IF r.data.shape = "tweetResult"
               THEN from_api_response(data)
               ELSE from_api_response(EmptyFragment)
       IN  /\ tweet' = mapped
           /\ Done(t, IF mapped.status = "raised"
                      THEN RaiseResult(mapped.exc)
                      ELSE [NoResult EXCEPT !.kind = "return"])
    /\ UNCHANGED <<initVars, richVars, threads, self, environ, op, data, user, requestVars,
                   response, count, all_tweets, cursor, before>>

InitMap ==
    /\ self \in OpsClients
    /\ environ = Unset
    /\ InitThreads({1})
    /\ data \in Fragments
    /\ tweet = Pending
    /\ user = Pending
    /\ Constructed
    /\ NothingParsed

NextMap ==
    \/ \E t \in threads : Call_from_api_response(t)
    \/ \E t \in threads : Call_User_from_api_response(t)
    \/ \E t \in threads : Call_tweet_result_by_rest_id(t)
    \/ \E t \in threads : tweet_result_by_rest_id_result(t)
    \/ \E t \in threads : _make_request_headers(t)
    \/ \E t \in threads : _make_request_attempt(t)
    \/ \E t \in threads : _make_request_sleep(t)

SpecMap == InitMap /\ [][NextMap]_vars

(***************************************************************************)
(* parse_markdown_to_richtext, applied to a text                           *)
(***************************************************************************)
Call_parse_markdown_to_richtext ==
    /\ ~richtext.done
    /\ richtext' = parse_markdown_to_richtext(markdown)
    /\ UNCHANGED <<mapVars, initVars, markdown, threads, self, environ, op,
                   pc, requestVars, response, pageVars, result>>

InitMarkdown ==
    /\ self \in OpsClients
    /\ environ = Unset
    /\ InitThreads({1})
    /\ NothingMapped
    /\ Constructed
    /\ markdown \in { Render(segments) : segments \in SegmentLists }
    /\ richtext = NoRichText

NextMarkdown == Call_parse_markdown_to_richtext

SpecMarkdown == InitMarkdown /\ [][NextMarkdown]_vars

(***************************************************************************)
(* TwitterClient.__init__ and check_balance                                *)
(***************************************************************************)
\* "self.api_key = api_key or os.getenv('APIDANCE_API_KEY')"
self_api_key == IF api_key # "" THEN api_key ELSE getenv

\* the constructor, from the key to the retry configuration
__init__ ==
    /\ init = "new"
    /\ IF self_api_key = ""
       THEN /\ init' = "ApiKeyError"
            /\ UNCHANGED balance
       ELSE LET b == check_balance(balance_response)
            IN  /\ balance' = <<b>>
                /\ init' = IF b.exc # None THEN b.exc
                           ELSE IF b.value < MinBalance
                           THEN "InsufficientCreditsError"
                           ELSE "constructed"
    /\ UNCHANGED <<mapVars, richVars, api_key, getenv, balance_response,
                   threads, self, environ, op, pc, requestVars, response,
                   pageVars, result>>

\* a caller asks the constructed client for the balance
Call_check_balance ==
    /\ init = "constructed"
    /\ \E r \in BalanceResponses :
         /\ balance_response' = r
         /\ balance' = <<check_balance(r)>>
    /\ UNCHANGED <<mapVars, richVars, api_key, getenv, init, threads, self,
                   environ, op, pc, requestVars, response, pageVars, result>>

\* a client is constructed, then asked for the balance and for requests
InitBalance ==
    /\ self \in OpsClients
    /\ environ = Unset
    /\ InitThreads({1})
    /\ NothingMapped
    /\ NothingParsed
    /\ api_key \in {"", "k"}
    /\ getenv \in {"", "e"}
    /\ balance_response \in BalanceResponses
    /\ balance = <<>>
    /\ init = "new"

NextBalance ==
    \/ __init__
    \/ Call_check_balance
    \/ \E t \in threads : Call_make_request(t)
    \/ \E t \in threads : _make_request_headers(t)
    \/ \E t \in threads : _make_request_attempt(t)
    \/ \E t \in threads : _make_request_sleep(t)

SpecBalance == InitBalance /\ [][NextBalance]_vars

(***************************************************************************)
(* Two callers use _make_request of one client at the same time; the token *)
(* of the environment is malformed, so that a call to a privileged         *)
(* endpoint ends with AuthTokenError and a call to another endpoint goes   *)
(* through the retry loop.                                                 *)
(***************************************************************************)
InitConcurrent ==
    /\ self \in OpsClients
    /\ environ = [set |-> TRUE, value |-> Rep("A", AuthTokenLen)]
    /\ InitThreads({1, 2})
    /\ NothingMapped
    /\ Constructed
    /\ NothingParsed

SpecConcurrent == InitConcurrent /\ [][Next]_vars

(***************************************************************************)
(* Vocabulary of the properties.                                           *)
(***************************************************************************)
\* the number of HTTP attempts the current call of caller t has issued
Attempts(t) == Len(received[t])

\* what the latest HTTP attempt of caller t met
Latest(t) == received[t][Len(received[t])]

\* the call of caller t ended by raising e
Raised(t, e) ==
    pc[t] = "done" /\ result[t].kind = "raise" /\ result[t].exc = e

\* _make_request of caller t is retrying after its attempt number n: nothing
\* was raised or returned, the n-th backoff sleep is running or just over,
\* and the next thing the call does is attempt n + 1
Retrying(t, n) ==
    /\ result[t].kind = "none"
    /\ Len(slept[t]) = n
    /\ \/ pc[t] = "sleep" /\ attempt[t] = n
       \/ pc[t] = "request" /\ attempt[t] = n + 1

InsufficientBalance == ProxyEnvelope("Insufficient API counts")

\* the envelopes the classifier rules call fatal: an upstream code other
\* than 88 and 139, and the proxy's insufficient-balance envelope
FatalCoded(r) ==
    \/ r.kind = "errors" /\ r.code \notin {RateLimitCode, AlreadyFavoritedCode}
    \/ r = InsufficientBalance

\* the error kind that belongs to a fatal envelope
KindOf(r) ==
    IF r = InsufficientBalance THEN "InsufficientCreditsError"
    ELSE IF r.code = 32 THEN "AuthenticationError"
    ELSE IF r.code = InvalidInputCode THEN "InvalidInputError"
    ELSE "TwitterPlatformError"

\* the conditions the rules call transient
Transient(r) ==
    \/ r \in {ConnectFailure, OtherFailure, MalformedJson, LocalRateLimited,
              JsonNull}
    \/ r = ErrorEnvelope(RateLimitCode)

\* a string of exactly forty lowercase hexadecimal characters
Is40LowerHex(value) ==
    /\ Len(value) = AuthTokenLen
    /\ \A i \in 1..Len(value) : value[i] \in HexChars

(***************************************************************************)
(* C1.  When an attempt of _make_request meets a fatal-coded envelope      *)
(* (upstream code 32, 366 or another unclassified code, or the proxy's     *)
(* insufficient-balance envelope) and all earlier attempts of the call met *)
(* transient conditions, the call raises the error kind of that envelope   *)
(* and issues no further HTTP attempt, whichever attempt it was.           *)
(***************************************************************************)
C1_FatalEnvelopeEndsCall ==
    \A t \in threads :
        ( /\ op[t] = "_make_request"
          /\ Attempts(t) >= 1
          /\ FatalCoded(Latest(t))
          /\ \A i \in 1..(Attempts(t) - 1) : Transient(received[t][i]) )
        => Raised(t, KindOf(Latest(t)))

(***************************************************************************)
(* C2.  When an attempt of _make_request meets the proxy envelope for      *)
(* insufficient balance, the call raises InsufficientCreditsError right    *)
(* away: no backoff sleep and no further HTTP attempt follow.              *)
(***************************************************************************)
C2_InsufficientCreditsAtOnce ==
    \A t \in threads :
        ( /\ op[t] = "_make_request"
          /\ Attempts(t) >= 1
          /\ Latest(t) = InsufficientBalance )
        => /\ Raised(t, "InsufficientCreditsError")
           /\ Len(slept[t]) = Attempts(t) - 1

(***************************************************************************)
(* C3.  A call of _make_request whose every attempt met the rate-limit     *)
(* envelope (code 88) has, when it ends, issued exactly max_retries HTTP   *)
(* attempts and raised RateLimitError; it returned no body.                *)
(***************************************************************************)
C3_RateLimitAfterFullBudget ==
    \A t \in threads :
        ( /\ op[t] = "_make_request"
          /\ pc[t] = "done"
          /\ Attempts(t) >= 1
          /\ \A i \in 1..Attempts(t) :
                 received[t][i] = ErrorEnvelope(RateLimitCode) )
        => /\ Attempts(t) = self.max_retries
           /\ Raised(t, "RateLimitError")

(***************************************************************************)
(* C4.  When every attempt of a page request of search_timeline met a      *)
(* transient condition (code 88, malformed JSON, a retry sentinel) until   *)
(* the attempt budget was spent, the operation ends by raising an error;   *)
(* it does not return a list.                                              *)
(***************************************************************************)
C4_ExhaustedPageRaises ==
    \A t \in threads :
        ( /\ op[t] = "search_timeline"
          /\ pc[t] = "done"
          /\ Attempts(t) = self.max_retries
          /\ \A i \in 1..Attempts(t) :
                 received[t][i] \in {ErrorEnvelope(RateLimitCode),
                                     MalformedJson, LocalRateLimited,
                                     JsonNull} )
        => result[t].kind = "raise"

(***************************************************************************)
(* C5, as claimed.  The delay slept immediately before HTTP attempt k, for *)
(* k from 2 to max_retries, is                                             *)
(* min(initial_retry_delay * backoff_factor^(k-1), max_retry_delay).       *)
(***************************************************************************)
C5_DelayBeforeAttemptClaimed ==
    \A t \in threads :
        \A k \in 2..self.max_retries :
            Len(slept[t]) >= k - 1 =>
                slept[t][k - 1] =
                    Min(self.initial_retry_delay
                            * Pow(self.backoff_factor, k - 1),
                        self.max_retry_delay)

(***************************************************************************)
(* C5, amended.  The delay slept immediately before HTTP attempt k, for k  *)
(* from 2 to max_retries, is                                               *)
(* min(initial_retry_delay * backoff_factor^(k-2), max_retry_delay): the   *)
(* exponent counts from the attempt that failed, so with 1, 2, 32 the      *)
(* delay before attempt 2 is 1 and the one before attempt 3 is 2.          *)
(***************************************************************************)
C5_DelayBeforeAttempt ==
    \A t \in threads :
        \A k \in 2..self.max_retries :
            Len(slept[t]) >= k - 1 =>
                slept[t][k - 1] =
                    Min(self.initial_retry_delay
                            * Pow(self.backoff_factor, k - 2),
                        self.max_retry_delay)

\* attempt 3 is about to be issued after a first delay below the cap and a
\* second delay that the cap cut
C5_Witness ==
    \E t \in threads :
        /\ pc[t] = "request"
        /\ attempt[t] = 3
        /\ Len(slept[t]) = 2
        /\ slept[t][1] < self.max_retry_delay
        /\ slept[t][2] = self.max_retry_delay
        /\ self.initial_retry_delay * self.backoff_factor
               > self.max_retry_delay

(***************************************************************************)
(* C6.  A body that fails to parse as JSON, met on an attempt before the   *)
(* final one, is transient: _make_request raises nothing, sleeps the       *)
(* backoff delay once and goes on to the next HTTP attempt.                *)
(***************************************************************************)
C6_MalformedJsonRetried ==
    \A t \in threads :
        ( /\ Attempts(t) >= 1
          /\ Latest(t).kind = "text"
          /\ Attempts(t) < self.max_retries )
        => Retrying(t, Attempts(t))

\* the second attempt is about to be issued after a malformed body
C6_Witness ==
    \E t \in threads :
        /\ Attempts(t) = 1
        /\ Latest(t) = MalformedJson
        /\ pc[t] = "request"
        /\ attempt[t] = 2
        /\ Len(slept[t]) = 1

(***************************************************************************)
(* C7.  A body that is one of the "try again" sentinels, the text          *)
(* local_rate_limited or a bare JSON null, met on an attempt before the    *)
(* final one, makes _make_request retry: neither ends the call.            *)
(***************************************************************************)
C7_SentinelRetried ==
    \A t \in threads :
        ( /\ Attempts(t) >= 1
          /\ Latest(t) \in {LocalRateLimited, JsonNull}
          /\ Attempts(t) < self.max_retries )
        => Retrying(t, Attempts(t))

C9_AlreadyFavoritedIsSuccess ==
    \A t \in threads :
        ( /\ op[t] = "favorite_tweet"
          /\ Attempts(t) >= 1
          /\ Latest(t) \in {ErrorEnvelope(AlreadyFavoritedCode),
                            DataBody(FavoriteDone)} )
        => /\ Len(slept[t]) = Attempts(t) - 1
           /\ response[t] = Latest(t)
           /\ \/ pc[t] = "returned" /\ result[t].kind = "none"
              \/ pc[t] = "done" /\ result[t] = FlagResult(TRUE)

\* favorite_tweet returned True for a code 139 that the classifier saw on
\* an attempt before the final one
C9_Witness ==
    \E t \in threads :
        /\ op[t] = "favorite_tweet"
        /\ pc[t] = "done"
        /\ Attempts(t) >= 1
        /\ Attempts(t) < self.max_retries
        /\ Latest(t) = ErrorEnvelope(AlreadyFavoritedCode)
        /\ result[t] = FlagResult(TRUE)

(***************************************************************************)
(* C10.  For a request to a privileged endpoint, when the auth token is    *)
(* present but is not a string of forty lowercase hexadecimal characters,  *)
(* _make_request raises AuthTokenError and issues no HTTP request.         *)
(***************************************************************************)
C10_MalformedTokenRaises ==
    \A t \in threads :
        ( /\ pc[t] \notin {"idle", "headers"}
          /\ endpoint[t] \in auth_required_endpoints
          /\ Truthy(environ)
          /\ ~Is40LowerHex(environ.value) )
        => /\ Raised(t, "AuthTokenError")
           /\ Attempts(t) = 0

(***************************************************************************)
(* C11.  Every HTTP request that is sent for a privileged operation        *)
(* (FavoriteTweet, CreateTweet, CreateNoteTweet) carries an AuthToken      *)
(* header whose value is forty lowercase hexadecimal characters; with no   *)
(* token the operation raises instead of sending a request without it.     *)
(***************************************************************************)
C11_PrivilegedRequestCarriesToken ==
    \A t \in threads :
        ( /\ endpoint[t] \in {"/graphql/FavoriteTweet", "/graphql/CreateTweet",
                              "/graphql/CreateNoteTweet"}
          /\ Attempts(t) >= 1 )
        => /\ headers[t].present
           /\ Is40LowerHex(headers[t].value)

(***************************************************************************)
(* C12.  Every exception that leaves _make_request or a public operation   *)
(* is one of the library's error kinds, a subclass of ApiDanceError.       *)
(***************************************************************************)
C12_OnlyLibraryErrorsEscape ==
    \A t \in threads :
        result[t].kind = "raise" => result[t].exc \in ApiDanceErrors

(***************************************************************************)
(* Vocabulary of the pagination properties.                                *)
(***************************************************************************)
PaginatedOps ==
    {"search_timeline", "get_user_tweets", "get_list_latest_tweets",
     "get_followers", "get_followers_you_know"}

SequenceOps == PaginatedOps \cup {"get_following"}

\* the page the operation of caller t processed last
LastPage(t) == Timeline(response[t])

\* the operation of caller t processed a page and went on to another page
\* request, which has not returned yet
WentOn(t) == pc[t] \in {"headers", "request", "sleep"} /\ pages[t] >= 2

\* the operation of caller t returned to its caller
Finished(t) == pc[t] = "done" /\ result[t].kind = "return"

\* the operation of caller t got the accepted body of its first page request
\* and has processed it
FirstPageProcessed(t) ==
    /\ pages[t] = 1
    /\ pc[t] = "done"
    /\ Attempts(t) >= 1
    /\ Latest(t).kind = "data"

\* how often id occurs in seq
Occ(seq, id) == Cardinality({ i \in 1..Len(seq) : seq[i] = id })

\* the first occurrences of seq, in order
RECURSIVE Distinct(_)
Distinct(seq) ==
    IF seq = <<>> THEN <<>>
    ELSE LET front == SubSeq(seq, 1, Len(seq) - 1)
             last == seq[Len(seq)]
         IN  IF last \in Ids(front) THEN Distinct(front)
             ELSE Append(Distinct(front), last)

(***************************************************************************)
(* C13.  With a desired count N >= 1, when the page upstream returns holds *)
(* N or more entities not yet accumulated, a paginated operation returns   *)
(* exactly N entities: the first N distinct ones, in first-seen order.     *)
(***************************************************************************)
C13_ExactlyFirstNDistinct ==
    \A t \in threads :
        ( /\ op[t] \in PaginatedOps
          /\ count[t] >= 1
          /\ FirstPageProcessed(t)
          /\ Latest(t).data.shape = "timeline"
          /\ Cardinality(Ids(Latest(t).data.entries)) >= count[t] )
        => /\ Finished(t)
           /\ result[t].tweets =
                  SubSeq(Distinct(Latest(t).data.entries), 1, count[t])

(***************************************************************************)
(* C14.  In every paginated operation, an entity of a page whose id was    *)
(* accumulated from an earlier page is not appended again: the list holds  *)
(* it no more often than before the page, and what was accumulated keeps   *)
(* its position.                                                           *)
(***************************************************************************)
C14_RepeatedEntityNotAppended ==
    \A t \in threads :
        ( /\ op[t] \in PaginatedOps
          /\ WentOn(t) \/ Finished(t) )
        => /\ \A id \in Ids(before[t]) \cap Ids(LastPage(t).entries) :
                  Occ(all_tweets[t], id) <= Occ(before[t], id)
           /\ \A i \in 1..Len(before[t]) :
                  i <= Len(all_tweets[t]) => all_tweets[t][i] = before[t][i]

(***************************************************************************)
(* C15.  In every paginated operation, a page that holds entities but no   *)
(* bottom cursor is the last one: the operation issues no further page     *)
(* request, on the first page as on one that follows pages with a cursor.  *)
(***************************************************************************)
C15_CursorlessPageIsLast ==
    \A t \in threads :
        ( /\ op[t] \in PaginatedOps
          /\ WentOn(t) )
        => ~ ( /\ LastPage(t).entries # <<>>
               /\ LastPage(t).cursor = 0 )

(***************************************************************************)
(* C16.  In a paginated operation, a page that yields no new entity (it    *)
(* is empty, or every id on it is already accumulated) is the last one:    *)
(* the operation issues no further page request.                           *)
(***************************************************************************)
C16_PageWithoutNewEntityIsLast ==
    \A t \in threads :
        ( /\ op[t] \in PaginatedOps
          /\ WentOn(t) )
        => ~ ( Ids(LastPage(t).entries) \subseteq Ids(before[t]) )

(***************************************************************************)
(* C17.  For each operation that returns a sequence, an accepted response  *)
(* without timeline entries (and so without a cursor entry) makes the      *)
(* operation return, not raise; what it returns is what it had accumulated *)
(* before, the empty list when the response is the first one.              *)
(***************************************************************************)
C17_NoEntriesReturnsEmpty ==
    \A t \in threads :
        ( /\ op[t] \in SequenceOps
          /\ pc[t] # "returned"
          /\ Attempts(t) >= 1
          /\ Latest(t).kind = "data"
          /\ Latest(t).data.entries = <<>>
          /\ Latest(t).data.cursor = 0 )
        => /\ Finished(t)
           /\ pages[t] = 1 => result[t].tweets = <<>>
           /\ op[t] \in PaginatedOps => result[t].tweets = before[t]

(***************************************************************************)
(* Vocabulary of the mapper properties.                                    *)
(***************************************************************************)
\* the fragment has no tweet result or no legacy block
Placeholder(fragment) ==
    \/ fragment.key # "tweet_results"
    \/ /\ fragment.result.legacy = EmptyLegacy
       /\ fragment.result.tweet.legacy = EmptyLegacy

\* the legacy block of a fragment that has one
LegacyOf(fragment) ==
    IF fragment.result.legacy = EmptyLegacy
    THEN fragment.result.tweet.legacy ELSE fragment.result.legacy

\* the fragment embedded under retweeted_status_result, in its envelope
Embedded(fragment) ==
    Envelope(LegacyOf(fragment).retweeted_status_result[1].result)

\* the call of Tweet.from_api_response on data by caller t has ended
MapperEnded(t) == op[t] = "from_api_response" /\ tweet.status # "pending"

\* in tw and in every Tweet below it, the flag tells whether there is a child
RECURSIVE FlagMatchesChild(_)
FlagMatchesChild(tw) ==
    /\ tw.is_retweet <=> tw.retweet_status # <<>>
    /\ tw.retweet_status # <<>> => FlagMatchesChild(tw.retweet_status[1])

(***************************************************************************)
(* C18.  Tweet.from_api_response applied to an empty or placeholder        *)
(* fragment returns None and does not raise; tweet_result_by_rest_id       *)
(* returns None for the response {"data": {"tweetResult": {}}}.            *)
(***************************************************************************)
C18_PlaceholderMapsToNone ==
    \A t \in threads :
        ( \/ MapperEnded(t) /\ Placeholder(data)
          \/ /\ op[t] = "tweet_result_by_rest_id"
             /\ pc[t] = "done"
             /\ Attempts(t) >= 1
             /\ Latest(t) = DataBody(TweetResultData)
             /\ data.result = EmptyResult )
        => tweet = Mapped(<<>>)

(***************************************************************************)
(* C19.  Tweet.from_api_response applied to a fragment whose legacy block  *)
(* has the retweeted_status_result key, with a creation time that parses   *)
(* and an embedded fragment that maps to a Tweet on its own, returns a     *)
(* Tweet with is_retweet true whose retweet_status is the Tweet obtained   *)
(* by mapping {tweet_results: {result: <embedded result>}} on its own.     *)
(***************************************************************************)
C19_ChildIsEmbeddedMappedAlone ==
    \A t \in threads :
        ( /\ MapperEnded(t)
          /\ ~Placeholder(data)
          /\ LegacyOf(data).retweeted_status_result # <<>>
          /\ strptime(GetOrEmpty(LegacyOf(data).created_at)).status
                = "returned"
          /\ from_api_response(Embedded(data)).status = "returned" )
        => /\ tweet.status = "returned"
           /\ tweet.value # <<>>
           /\ tweet.value[1].is_retweet
           /\ tweet.value[1].retweet_status
                = from_api_response(Embedded(data)).value
           /\ tweet.value[1].retweet_status[1].id
                = GetOrEmpty(LegacyOf(Embedded(data)).id_str)

\* a retweet was mapped whose child has another id than it has
C19_Witness ==
    \E t \in threads :
        /\ MapperEnded(t)
        /\ tweet.status = "returned"
        /\ tweet.value[1].is_retweet
        /\ tweet.value[1].retweet_status # <<>>
        /\ tweet.value[1].retweet_status[1].id # tweet.value[1].id

(***************************************************************************)
(* C20.  In every Tweet that Tweet.from_api_response produces, and in      *)
(* every Tweet nested in it, is_retweet is true if and only if             *)
(* retweet_status is present.                                              *)
(***************************************************************************)
C20_FlagIffChild ==
    (tweet.status = "returned" /\ tweet.value # <<>>)
        => FlagMatchesChild(tweet.value[1])

\* a retweet of a retweet was mapped, and a tweet that is no retweet
C20_Witness ==
    /\ tweet.status = "returned"
    /\ tweet.value # <<>>
    /\ tweet.value[1].is_retweet
    /\ tweet.value[1].retweet_status[1].is_retweet
    /\ ~tweet.value[1].retweet_status[1].retweet_status[1].is_retweet

(***************************************************************************)
(* C21.  When the legacy block of a fragment has the                       *)
(* retweeted_status_result key and the embedded fragment is empty or a     *)
(* placeholder, mapping the parent succeeds all the same: it yields a      *)
(* Tweet with is_retweet true.                                             *)
(***************************************************************************)
C21_UnresolvedChildKeepsParent ==
    \A t \in threads :
        ( /\ MapperEnded(t)
          /\ ~Placeholder(data)
          /\ LegacyOf(data).retweeted_status_result # <<>>
          /\ Placeholder(Embedded(data))
          /\ LegacyOf(data).created_at \notin {None} \cup MalformedCreatedAts )
        => /\ tweet.status = "returned"
           /\ tweet.value # <<>>
           /\ tweet.value[1].is_retweet

(***************************************************************************)
(* C22.  For a fragment whose legacy block has a created_at that is not of *)
(* the fixed format, Tweet.from_api_response raises; it returns no Tweet,  *)
(* so none with a zero or default timestamp.                               *)
(***************************************************************************)
C22_MalformedTimestampRaises ==
    \A t \in threads :
        ( /\ MapperEnded(t)
          /\ ~Placeholder(data)
          /\ LegacyOf(data).created_at \in MalformedCreatedAts )
        => /\ tweet.status = "raised"
           /\ tweet.exc = "ValueError"
           /\ tweet.value = <<>>

\* the mapper raised on a fragment that is well formed but for its
\* created_at: it has an id and a text, and is no retweet
C22_Witness ==
    \E t \in threads :
        /\ MapperEnded(t)
        /\ ~Placeholder(data)
        /\ LegacyOf(data).created_at \in MalformedCreatedAts
        /\ LegacyOf(data).id_str # None
        /\ LegacyOf(data).full_text # None
        /\ LegacyOf(data).retweeted_status_result = <<>>
        /\ tweet.status = "raised"

(***************************************************************************)
(* C23.  For a fragment with a well-formed legacy block, each engagement   *)
(* counter of the mapped Tweet equals the value of the fragment when the   *)
(* key is present and 0 when it is absent, and each mapped Media keeps the *)
(* type and the URL of its item; the follower and following counts of a    *)
(* mapped User equal the values of its user dict, 0 when absent.           *)
(***************************************************************************)
\* the value a counter is to have in the model object
Expected(counter) == IF counter = <<>> THEN 0 ELSE counter[1]

C23_CountersAndMediaKept ==
    \A t \in threads :
        /\ ( /\ MapperEnded(t)
             /\ ~Placeholder(data)
             /\ LegacyOf(data) \in RichLegacies )
           => /\ tweet.status = "returned"
              /\ tweet.value # <<>>
              /\ LET tw == tweet.value[1]
                     legacy == LegacyOf(data)
                 IN  /\ tw.favorite_count = Expected(legacy.favorite_count)
                     /\ tw.retweet_count = Expected(legacy.retweet_count)
                     /\ tw.reply_count = Expected(legacy.reply_count)
                     /\ tw.quote_count = Expected(legacy.quote_count)
                     /\ Len(tw.media) = Len(legacy.media)
                     /\ \A i \in 1..Len(legacy.media) :
                          /\ legacy.media[i].type # None
                               => tw.media[i].type = legacy.media[i].type
                          /\ legacy.media[i].media_url_https # None
                               => tw.media[i].url
                                    = legacy.media[i].media_url_https
        /\ ( /\ op[t] = "User.from_api_response"
             /\ pc[t] = "done" )
           => /\ user.status = "returned"
              /\ user.value[1].followers_count
                   = Expected(AuthorOf(data).legacy.followers_count)
              /\ user.value[1].following_count
                   = Expected(AuthorOf(data).legacy.friends_count)

\* favorite_count = 5 and the media URL https://x/1.jpg in, the same out,
\* with an absent retweet_count mapped to 0
C23_Witness ==
    \E t \in threads :
        /\ MapperEnded(t)
        /\ LegacyOf(data).favorite_count = <<5>>
        /\ LegacyOf(data).retweet_count = <<>>
        /\ LegacyOf(data).media = <<Photo>>
        /\ tweet.status = "returned"
        /\ tweet.value[1].favorite_count = 5
        /\ tweet.value[1].retweet_count = 0
        /\ tweet.value[1].media[1].url = "https://x/1.jpg"

(***************************************************************************)
(* C24.  The text of a mapped Tweet is that of the richest source the      *)
(* fragment has: the note-tweet text, else the legacy full_text, else the  *)
(* text field of the result itself.                                        *)
(***************************************************************************)
C24_TextFromRichestSource ==
    \A t \in threads :
        ( /\ MapperEnded(t)
          /\ ~Placeholder(data)
          /\ tweet.status = "returned" )
        => tweet.value[1].text =
              IF data.result.note_tweet # None THEN data.result.note_tweet
              ELSE IF LegacyOf(data).full_text # None
              THEN LegacyOf(data).full_text
              ELSE GetOrEmpty(data.result.text)

(***************************************************************************)
(* C25.  check_balance never raises: it returns the integer of the body    *)
(* when the body is a bare integer or an integer as text, and 0 when the   *)
(* endpoint is unreachable or the body is anything else.                   *)
(***************************************************************************)
\* the body is a bare integer, or an integer as text
IntegerBody(r) ==
    r.exc = None /\ (json(r.text).type = "int" \/ int(r.text) # <<>>)

C25_BalanceIsIntegerOrZero ==
    balance # <<>> =>
        /\ balance[1].exc = None
        /\ balance[1].type = "int"
        /\ balance[1].value = IF IntegerBody(balance_response)
                              THEN int(balance_response.text)[1]
                              ELSE 0

(***************************************************************************)
(* C26.  A balance of zero that stands for an unreachable balance endpoint *)
(* or an unparsable response does not make the constructor fail: with a    *)
(* non-empty API key the client is constructed.                            *)
(***************************************************************************)
C26_AdvisoryBalanceConstructs ==
    ( /\ init # "new"
      /\ self_api_key # ""
      /\ ~IntegerBody(balance_response)
      /\ balance = <<Balance("int", 0)>> )
    => init = "constructed"

(***************************************************************************)
(* C27.  For a text whose bold and italic spans neither nest nor overlap,  *)
(* parse_markdown_to_richtext returns the text without the markers and one *)
(* tag per span, in positions of the returned text: the tag covers exactly *)
(* the text the markers enclosed and names Bold or Italic accordingly.     *)
(***************************************************************************)
\* the text of a list of segments without its markers
RECURSIVE PlainOf(_)
PlainOf(segments) ==
    IF segments = <<>> THEN <<>>
    ELSE Head(segments).content \o PlainOf(Tail(segments))

\* one tag per span, at the place of its content in PlainOf
RECURSIVE TagsOf(_, _)
TagsOf(segments, at) ==
    IF segments = <<>> THEN <<>>
    ELSE LET seg == Head(segments)
             rest == TagsOf(Tail(segments), at + Len(seg.content))
         IN  IF seg.kind = "plain" THEN rest
             ELSE <<Tag(at, at + Len(seg.content), seg.kind)>> \o rest

C27_OneTagPerSpan ==
    richtext.done =>
        \A segments \in SegmentLists :
            Render(segments) = markdown
            => /\ richtext.plain_text = PlainOf(segments)
               /\ richtext.tags = TagsOf(segments, 0)

(***************************************************************************)
(* C28.  When an attempt of _make_request meets the upstream envelope with *)
(* code 32, the call raises AuthenticationError at once: no backoff sleep  *)
(* and no further HTTP attempt follow that attempt.                        *)
(***************************************************************************)
C28_Code32RaisesAuthenticationError ==
    \A t \in threads :
        ( /\ op[t] = "_make_request"
          /\ Attempts(t) >= 1
          /\ Latest(t) = ErrorEnvelope(32) )
        => /\ Raised(t, "AuthenticationError")
           /\ Len(slept[t]) = Attempts(t) - 1

(***************************************************************************)
(* C29.  When an attempt of _make_request meets an upstream envelope whose *)
(* code is nonzero and none of 88, 32, 139 and 366 (64 or 144, say), the   *)
(* call raises the platform error at once and never retries.               *)
(***************************************************************************)
\* an upstream envelope with an unclassified code
Unclassified(r) ==
    /\ r.kind = "errors"
    /\ r.code \notin {0, RateLimitCode, 32, AlreadyFavoritedCode,
                      InvalidInputCode}

C30_DelayAfterFailedAttempt ==
    \A t \in threads :
        \A a \in 1..Len(slept[t]) :
            LET uncapped == self.initial_retry_delay
                                * Pow(self.backoff_factor, a - 1)
            IN  /\ a < self.max_retries
                /\ a <= Attempts(t)
                /\ received[t][a] \in Upstream(endpoint[t])
                /\ slept[t][a] = IF uncapped <= self.max_retry_delay
                                 THEN uncapped
                                 ELSE self.max_retry_delay

\* two retries in one call, the first after a rate-limit envelope and the
\* second, cut by the cap, after a connection failure
C30_Witness ==
    \E t \in threads :
        /\ Len(slept[t]) = 2
        /\ received[t][1] = ErrorEnvelope(RateLimitCode)
        /\ received[t][2] = ConnectFailure
        /\ slept[t][1] = self.initial_retry_delay
        /\ slept[t][2] = self.max_retry_delay
        /\ self.initial_retry_delay * self.backoff_factor
               > self.max_retry_delay

(***************************************************************************)
(* C31.  A call of _make_request that has ended either raised an error or  *)
(* returned the parsed body of a response it received; when the attempt    *)
(* budget is spent with no error recorded (a budget of zero attempts       *)
(* included) it raises the generic platform error and returns no "no       *)
(* value".                                                                 *)
(***************************************************************************)
C31_ReturnsBodyOrRaises ==
    \A t \in threads :
        ( /\ op[t] = "_make_request"
          /\ pc[t] = "done" )
        => \/ result[t].kind = "raise"
           \/ /\ result[t].kind = "return"
              /\ Attempts(t) >= 1
              /\ ~JsonFails(Latest(t))
              /\ result[t].body = Latest(t)

(***************************************************************************)
(* C36.  With max_retries >= 1 and a token that is absent or well formed,  *)
(* one call of _make_request issues at least 1 and at most max_retries     *)
(* HTTP requests, and it has ended once attempt number max_retries is      *)
(* over.                                                                   *)
(***************************************************************************)
\* the call of caller t is not stopped by the check of the token
TokenPasses(t) ==
    ~( /\ endpoint[t] \in auth_required_endpoints
       /\ Truthy(environ)
       /\ ~TokenREMatch(environ.value) )

C36_BetweenOneAndMaxRetriesRequests ==
    \A t \in threads :
        ( /\ op[t] = "_make_request"
          /\ self.max_retries >= 1
          /\ TokenPasses(t) )
        => /\ Attempts(t) <= self.max_retries
           /\ attempt[t] <= self.max_retries
           /\ pc[t] = "done" => Attempts(t) >= 1
           /\ Attempts(t) = self.max_retries => pc[t] = "done"

\* a call that ended on its third and final attempt, after two failures
C36_Witness ==
    \E t \in threads :
        /\ op[t] = "_make_request"
        /\ self.max_retries = MaxRetriesBound
        /\ Attempts(t) = self.max_retries
        /\ received[t][1] = ConnectFailure
        /\ Latest(t) = OtherFailure
        /\ Raised(t, "ApidancePlatformError")

C38_OneSleepBetweenAttempts ==
    \A t \in threads :
        op[t] = "_make_request" =>
        /\ pc[t] = "request"
             => Len(slept[t]) = Attempts(t) /\ attempt[t] = Attempts(t) + 1
        \* asleep: the attempt before the sleep is over, the next not issued
        /\ pc[t] = "sleep"
             => Len(slept[t]) = Attempts(t) /\ attempt[t] = Attempts(t)
        /\ (pc[t] = "done" /\ Attempts(t) >= 1)
             => Len(slept[t]) = Attempts(t) - 1

\* a call that slept after a rate-limit envelope and after a connection
\* failure and ended on its third attempt
C38_Witness ==
    \E t \in threads :
        /\ op[t] = "_make_request"
        /\ pc[t] = "done"
        /\ Attempts(t) = 3
        /\ Len(slept[t]) = 2
        /\ received[t][1] = ErrorEnvelope(RateLimitCode)
        /\ received[t][2] = ConnectFailure
        /\ result[t].kind = "return"

(***************************************************************************)
(* C32.  The list search_timeline or get_user_tweets returns never holds   *)
(* two tweets with the same id, whatever pages upstream delivers, a page   *)
(* that lists one tweet twice included.                                    *)
(***************************************************************************)
C32_NoTweetTwice ==
    \A t \in threads :
        ( /\ op[t] \in {"search_timeline", "get_user_tweets"}
          /\ Finished(t) )
        => \A id \in Ids(result[t].tweets) : Occ(result[t].tweets, id) = 1

(***************************************************************************)
(* C33.  For a desired count N >= 0 the list a paginated operation returns *)
(* has at most N elements and is a prefix of the entities delivered so     *)
(* far, each at its first occurrence: truncation drops elements from the   *)
(* end only.                                                               *)
(***************************************************************************)
C33_AtMostNPrefixOfFirstSeen ==
    \A t \in threads :
        ( /\ op[t] \in PaginatedOps
          /\ Finished(t)
          /\ count[t] >= 0 )
        => LET returned == result[t].tweets
               first_seen == Distinct(before[t] \o LastPage(t).entries)
           IN  /\ Len(returned) <= count[t]
               /\ Len(returned) <= Len(first_seen)
               /\ returned = SubSeq(first_seen, 1, Len(returned))

(***************************************************************************)
(* C34.  The first page request of a paginated operation carries no        *)
(* cursor, and every later page request carries the bottom cursor of the   *)
(* page received just before it, never one of an older page.               *)
(***************************************************************************)
C34_RequestCarriesLatestCursor ==
    \A t \in threads :
        ( /\ op[t] \in PaginatedOps
          /\ pc[t] \in {"headers", "request", "sleep"} )
        => IF pages[t] = 1 THEN cursor[t] = 0
           ELSE /\ cursor[t] # 0
                /\ cursor[t] = _get_bottom_cursor(response[t])

(***************************************************************************)
(* C35.  A tweet delivered in the wrapped shape (result.tweet.legacy,      *)
(* result.tweet.core) maps to the same Tweet, author included, as the same *)
(* content delivered in the plain shape (result.legacy, result.core).      *)
(***************************************************************************)
\* the fragment is in the wrapped shape
Wrapped(fragment) ==
    /\ fragment.key = "tweet_results"
    /\ fragment.result.legacy = EmptyLegacy
    /\ fragment.result.tweet.legacy # EmptyLegacy

\* the content of a wrapped fragment, in the plain shape
PlainShape(fragment) ==
    [fragment EXCEPT !.result.legacy = fragment.result.tweet.legacy,
                     !.result.core = fragment.result.tweet.core,
                     !.result.tweet.legacy = EmptyLegacy,
                     !.result.tweet.core = EmptyUser]

C35_WrappedShapeMapsAsPlain ==
    \A t \in threads :
        (MapperEnded(t) /\ Wrapped(data))
        => tweet = from_api_response(PlainShape(data))

(***************************************************************************)
(* C39.  Two calls of _make_request that run at the same time on one       *)
(* client share no retry state: under every interleaving each call issues  *)
(* at most max_retries HTTP attempts, and its attempt counter, its         *)
(* headers, its recorded last error and its outcome follow from what the   *)
(* call itself met, whatever the other call meets.                         *)
(***************************************************************************)
C39_CallsShareNoRetryState ==
    \A t \in threads :
        (op[t] = "_make_request" /\ pc[t] # "headers") =>
        /\ Attempts(t) <= self.max_retries
        /\ pc[t] = "request" => attempt[t] = Attempts(t) + 1
        /\ (pc[t] \in {"sleep", "done"} /\ Attempts(t) >= 1)
             => attempt[t] = Attempts(t)
        /\ headers[t].present
             <=> (endpoint[t] \in auth_required_endpoints /\ Truthy(environ)
                    /\ TokenPasses(t))
        /\ last_error[t] # None
             => \E i \in 1..Attempts(t) :
                    Iteration(self, received[t][i], i).last = last_error[t]
        /\ (pc[t] = "done" /\ Attempts(t) = 0)
             => ~TokenPasses(t) /\ Raised(t, "AuthTokenError")
        /\ (pc[t] = "done" /\ Attempts(t) >= 1)
             => LET it == Iteration(self, Latest(t), Attempts(t))
                IN  IF it.next = "return"
                    THEN result[t] = BodyResult(Latest(t))
                    ELSE it.next = "raise" /\ result[t] = RaiseResult(it.exc)

\* both calls are under way: one sleeps after its first attempt, the other
\* is about to issue its second, and they recorded different errors
C39_Witness ==
    \E t, u \in threads :
        /\ t # u
        /\ op[t] = "_make_request" /\ op[u] = "_make_request"
        /\ pc[t] = "sleep" /\ attempt[t] = 1
        /\ pc[u] = "request" /\ attempt[u] = 2
        /\ last_error[t] # last_error[u]

====
